---- MODULE Spec2Model ----
(***************************************************************************)
(* A model of the koll telemetry recorder: the trace/span engine           *)
(* (context.ts: runSpan, makeSpan, span, makeParentObj) and the export     *)
(* pipeline stages (pausableExporter, batchingExporter, bufferedExporter)   *)
(* and the faro exporter (collect, the payload and its delivery), the     *)
(* recording functions (log, error, measurement, span), tracer and         *)
(* dummyTracer, the unhandled-errors instrumentation, and the parser of    *)
(* error stacks (parseStackTrace).                                         *)
(*                                                                         *)
(* Strings that the code splits or concatenates are sequences of tokens:   *)
(* the token "-" is the separator character, every other token is a        *)
(* non-empty chunk of characters that holds no "-".  The empty string is   *)
(* the empty sequence.  Identifiers are strings of this kind.              *)
(***************************************************************************)
EXTENDS Integers, Sequences, FiniteSets, TLC

VARIABLES
    spans,      \* the RunningSpan objects made by runSpan, in creation order
    nextId,     \* how many identifiers id() has produced so far, plus one
    exported,   \* the calls received by the exporter of the span engine
    bodyCalls,  \* how many mark and span calls the bodies have made
    made,       \* the calls of makeSpan made directly, with their results
    popts,      \* pausableExporter: the options object
    paused,     \* pausableExporter: let paused
    ppending,   \* pausableExporter: const pending
    pcalls,     \* pausableExporter: the calls received by the inner exporter
    pnext,      \* pausableExporter: number of the next item to be submitted
    psubs,      \* pausableExporter: how much of MaxSubmits the calls of the exporter have used
    plast,      \* pausableExporter: the last call made on the stage, and the state it found
    pbuf,       \* pausableExporter: what was submitted while paused since the last unpause
    pdropped,   \* pausableExporter: the items that the splice of the queue removed
    bopts,      \* batchingExporter: the options object
    btimer,     \* batchingExporter: let timer, and how many timeouts are set
    bpending,   \* batchingExporter: const pending
    bcalls,     \* batchingExporter: the calls received by the inner exporter
    bnext,      \* batchingExporter: number of the next item to be submitted
    bsubs,      \* batchingExporter: how many times the stage's exporter was called
    bfired,     \* batchingExporter: processBatch has run
    blate,      \* batchingExporter: the exporter was called after processBatch had run
    blast,      \* batchingExporter: the last call made on the stage, and the queue it found
    bdropped,   \* batchingExporter: the items that the splice of the queue removed
    fopts,      \* bufferedExporter: the options object
    fused,      \* bufferedExporter: obj.used
    fpending,   \* bufferedExporter: const pending
    fcalls,     \* bufferedExporter: the calls received by the inner exporter
    fprocs,     \* bufferedExporter: the calls of obj.exporter and obj.send, in call order
    fnext,      \* bufferedExporter: number of the next item to be submitted
    fsubs,      \* bufferedExporter: how many times obj.exporter and obj.send were called
    batch,      \* collect: the batch given to the shaper
    shaped,     \* collect: what the shaper returned for the batch
    faro,       \* faroExporter: the export call, its payload, its transports and its promise
    tr,         \* the Tracer object in use: tracer(exporter, parent) or dummyTracer
    tcalls,     \* the calls of log, error, measurement and span, with what the exporter received
    uopts,      \* instrumentUnhandledErrors: the options object
    uon,        \* instrumentUnhandledErrors: the window and the instrumentations
    parsed      \* parseStackTrace: the stack it is given and what it returns

vars ==
    <<spans, nextId, exported, bodyCalls, made,
      popts, paused, ppending, pcalls, pnext, psubs, plast, pbuf, pdropped,
      bopts, btimer, bpending, bcalls, bnext, bsubs, bfired, blate, blast, bdropped,
      fopts, fused, fpending, fcalls, fprocs, fnext, fsubs,
      batch, shaped, faro,
      tr, tcalls, uopts, uon, parsed>>
spanVars == <<spans, nextId, exported, bodyCalls, made>>
pausableVars == <<popts, paused, ppending, pcalls, pnext, psubs, plast, pbuf, pdropped>>
batchingVars == <<bopts, btimer, bpending, bcalls, bnext, bsubs, bfired, blate, blast, bdropped>>
bufferedVars == <<fopts, fused, fpending, fcalls, fprocs, fnext, fsubs>>
shaperVars == <<batch, shaped, faro>>
tracerVars == <<tr, tcalls, uopts, uon>>
stackVars == <<parsed>>

\* The span engine before any run
SpanIdle ==
    /\ spans = <<>>
    /\ nextId = 1
    /\ exported = <<>>
    /\ bodyCalls = 0
    /\ made = <<>>

----------------------------------------------------------------------------
(* Bounds of the model *)

MaxSpans == 3
MaxBodyCalls == 2
MaxMade == 2
MaxSubmits == 3
MaxCallItems == 2
MaxEmptyCalls == 2
MaxBufferedCalls == 3
MaxPipelineSubmits == 2
MaxBatchLen == 3
MaxTracerCalls == 2
MaxInstalls == 2
MaxLines == 2

----------------------------------------------------------------------------
(* Strings and identifiers *)

DASH == "-"
UNDEF == <<"undefined">>
EMPTY == <<>>

IdAtoms ==
    <<"a01", "a02", "a03", "a04", "a05", "a06", "a07", "a08", "a09", "a10",
      "a11", "a12", "a13", "a14", "a15", "a16", "a17", "a18", "a19", "a20",
      "a21", "a22", "a23", "a24", "a25", "a26", "a27", "a28", "a29", "a30">>

\* id(length): a random identifier; two calls are taken never to collide, nor
\* to produce an identifier that came from outside.
id(n) == <<IdAtoms[n]>>

GeneratedIds == {id(n) : n \in 1..Len(IdAtoms)}

RECURSIVE SplitFrom(_, _)
SplitFrom(parts, s) ==
    IF s = <<>> THEN parts
    ELSE IF Head(s) = DASH
         THEN SplitFrom(Append(parts, <<>>), Tail(s))
         ELSE SplitFrom([parts EXCEPT ![Len(parts)] = Append(@, Head(s))], Tail(s))

\* String.prototype.split('-')
Split(s) == SplitFrom(<< <<>> >>, s)

\* parts[k], JavaScript's 0-based indexing, undefined past the end
Part(parts, k) == IF k + 1 <= Len(parts) THEN parts[k + 1] ELSE UNDEF

HexVal == [a \in {"00", "01", "0", "1"} |-> IF a \in {"01", "1"} THEN 1 ELSE 0]
NaN == -1

\* parseInt(part || '0', 16)
ParseHex(part) ==
    IF part = UNDEF \/ part = EMPTY THEN 0
    ELSE IF Len(part) = 1 /\ part[1] \in DOMAIN HexVal THEN HexVal[part[1]]
    ELSE NaN

FlagsSampled_Always(v) == TRUE

\* !!(flags & 1)
FlagsSampled(v) == v >= 0 /\ v % 2 = 1

----------------------------------------------------------------------------
(* Parent span references: ParentSpanObject | string | null | undefined *)

AbsentParent ==
    [type |-> "absent", str |-> EMPTY, traceId |-> EMPTY, spanId |-> EMPTY, sample |-> "undefined"]

ObjectParent(t, s, smp) ==
    [type |-> "object", str |-> EMPTY, traceId |-> t, spanId |-> s, sample |-> smp]

StringParent(s) ==
    [type |-> "string", str |-> s, traceId |-> EMPTY, spanId |-> EMPTY, sample |-> "undefined"]

NoParentObj ==
    [def |-> FALSE, version |-> 0, traceId |-> UNDEF, spanId |-> UNDEF, sample |-> FALSE]

makeParentObj(P) ==
    IF P.type = "string" THEN
        LET parts == Split(P.str)
            flags == ParseHex(Part(parts, 3))
        IN [def |-> TRUE,
            version |-> ParseHex(Part(parts, 0)),
            traceId |-> Part(parts, 1),
            spanId |-> Part(parts, 2),
            sample |-> FlagsSampled(flags)]
    ELSE IF P.type = "object" THEN
        [def |-> TRUE, version |-> 0, traceId |-> P.traceId, spanId |-> P.spanId,
         sample |-> (P.sample = "true")]
    ELSE NoParentObj

----------------------------------------------------------------------------
(* Spans *)

\* now(): the reading of the clock.  Where a specification does not follow
\* the timestamps the clock stands still.
now == 1
Times == {now, now + 1}

StatusOK == [message |-> "OK", code |-> 1]
StatusERROR == [code |-> 2, message |-> "ERROR"]

\* Partial<Span>: a function from some field names to values
NoDetails == [f \in {} |-> EMPTY]

Overlay_Keep(span, details) == span

\* { ...span, ...details }
Overlay(span, details) ==
    [f \in DOMAIN span |-> IF f \in DOMAIN details THEN details[f] ELSE span[f]]

\* How many identifiers makeSpan(parent) draws from id()
IdsDrawn(P) ==
    LET parentObj == makeParentObj(P)
    IN IF parentObj.def /\ parentObj.traceId # UNDEF THEN 1 ELSE 2

makeSpan_FreshTrace(P, details, n, t) ==
    LET parentObj == makeParentObj(P)
        inherit == parentObj.def /\ parentObj.traceId # UNDEF
    IN Overlay([startTimeUnixNano |-> t,
                endTimeUnixNano |-> t,
                parentSpanId |-> IF parentObj.def THEN parentObj.spanId ELSE UNDEF,
                traceId |-> IF inherit THEN id(n + 1) ELSE id(n),
                sample |-> IF parentObj.def THEN parentObj.sample ELSE TRUE,
                spanId |-> IF inherit THEN id(n) ELSE id(n + 1),
                name |-> EMPTY,
                status |-> StatusOK,
                events |-> <<>>],
               details)

\* makeSpan(parent, details), n being the number of the next identifier and t
\* what now() returns
makeSpan(P, details, n, t) ==
    LET parentObj == makeParentObj(P)
        inherit == parentObj.def /\ parentObj.traceId # UNDEF
    IN Overlay([startTimeUnixNano |-> t,
                endTimeUnixNano |-> t,
                parentSpanId |-> IF parentObj.def THEN parentObj.spanId ELSE UNDEF,
                traceId |-> IF inherit THEN parentObj.traceId ELSE id(n),
                sample |-> IF parentObj.def THEN parentObj.sample ELSE TRUE,
                spanId |-> IF inherit THEN id(n) ELSE id(n + 1),
                name |-> EMPTY,
                status |-> StatusOK,
                events |-> <<>>],
               details)

----------------------------------------------------------------------------
(* runSpan: the RunningSpan objects and the steps of a run *)

ExternalTraceId == <<"x1">>
ExternalSpanId == <<"x2">>

ParentStrings ==
    { <<"00", DASH, "x1", DASH, "x2", DASH, "01">>,
      <<"00", DASH, "x1", DASH, "x2", DASH, "00">>,
      <<"00", DASH, DASH, "x2", DASH, "01">>,
      <<"x1">>,
      EMPTY }

ParentObjects ==
    { ObjectParent(t, ExternalSpanId, smp) :
        t \in {EMPTY, ExternalTraceId}, smp \in {"true", "false", "undefined"} }

\* The parents given to the runs that the application starts
RunParents ==
    { AbsentParent,
      ObjectParent(ExternalTraceId, ExternalSpanId, "true"),
      ObjectParent(ExternalTraceId, ExternalSpanId, "undefined"),
      StringParent(<<"00", DASH, DASH, "x2", DASH, "01">>) }

RootParents == {AbsentParent} \cup ParentObjects \cup {StringParent(s) : s \in ParentStrings}

\* What a body can throw: Error objects, or the value null
Thrown == {"E1", "null"}
ExportError == "ExportError"
TypeError == "TypeError"

NoOutcome == [k |-> "none", v |-> ""]
Returned == [k |-> "return", v |-> ""]
Threw(e) == [k |-> "throw", v |-> e]

Event(name, hasAttributes, attributes) ==
    [name |-> name, hasAttributes |-> hasAttributes, attributes |-> attributes]

\* Error objects: error.name, String(error) and error.stack
ErrorObjects == {"E1", "E2"}
ErrorName(e) == IF e = "E2" THEN "RangeError" ELSE "Error"
ErrorText(e) == IF e = "E2" THEN "RangeError: far" ELSE "Error: boom"
ErrorStack(e) == IF e = "E2" THEN "RangeError: far at g" ELSE "Error: boom at f"

errorAttributes_NoKind(e) ==
    << <<"message", ErrorText(e)>>, <<"type", ErrorName(e)>>, <<"stacktrace", ErrorStack(e)>> >>

errorAttributes(e) ==
    << <<"kind", "exception">>, <<"message", ErrorText(e)>>, <<"type", ErrorName(e)>>,
       <<"stacktrace", ErrorStack(e)>> >>

AsParent_Absent(sp) == AbsentParent

\* The object a running span is when it is passed as the parent of another span
AsParent(sp) ==
    ObjectParent(sp.traceId, sp.spanId, IF sp.sample THEN "true" ELSE "false")

\* runSpan, lines 110-133: the new RunningSpan, about to run its body
NewRunningSpan(exp, P, creator, afterCancel, n) ==
    LET s == makeSpan(P, NoDetails, n, now)
    IN [pc |-> "body", exp |-> exp, parent |-> P, creator |-> creator, born |-> n,
        traceId |-> s.traceId, spanId |-> s.spanId, parentSpanId |-> s.parentSpanId,
        sample |-> s.sample, name |-> s.name, status |-> s.status, events |-> s.events,
        startTimeUnixNano |-> s.startTimeUnixNano, endTimeUnixNano |-> s.endTimeUnixNano,
        cancelled |-> FALSE, afterCancel |-> afterCancel, thrown |-> "none",
        evAtFinish |-> 0, sampleAtFinish |-> FALSE, awaited |-> FALSE, finishedAt |-> 0,
        pending |-> NoOutcome, result |-> NoOutcome]

\* The fields of a running span that make up the Span handed to the exporter
SpanOf(sp) ==
    [startTimeUnixNano |-> sp.startTimeUnixNano, endTimeUnixNano |-> sp.endTimeUnixNano,
     parentSpanId |-> sp.parentSpanId, traceId |-> sp.traceId, sample |-> sp.sample,
     spanId |-> sp.spanId, name |-> sp.name, status |-> sp.status, events |-> sp.events]

ExportItem(via, idx, afterCancel, span) ==
    [via |-> via, idx |-> idx, afterCancel |-> afterCancel, span |-> span]

cancel_KeepSample(sp) == [sp EXCEPT !.cancelled = TRUE]

\* runSpan.cancel
cancel(sp) == [sp EXCEPT !.sample = FALSE, !.cancelled = TRUE]

mark_Restamp(sp, name, hasAttributes, attributes) ==
    [sp EXCEPT !.events = Append(@, Event(name, hasAttributes, attributes)),
               !.endTimeUnixNano = now + 1]

\* runSpan.mark
mark(sp, name, hasAttributes, attributes) ==
    [sp EXCEPT !.events = Append(@, Event(name, hasAttributes, attributes))]

\* The catch block of runSpan.  errorAttributes reads ex.name, which raises a
\* TypeError for null before mark is called.
Catch(sp, e) ==
    LET s1 == [sp EXCEPT !.status = StatusERROR]
    IN IF e = "null"
       THEN [s1 EXCEPT !.pending = Threw(TypeError)]
       ELSE [mark(s1, "error", TRUE, errorAttributes(e)) EXCEPT !.pending = Threw(e)]

ShouldExport_Always(sp) == sp.exp

\* Whether the finally block of runSpan calls the exporter
ShouldExport(sp) == sp.exp /\ sp.sample

Finally_NoStamp(sp, t) ==
    IF ShouldExport(sp)
    THEN [sp EXCEPT !.pc = "exporting"]
    ELSE [sp EXCEPT !.pc = "done", !.result = sp.pending]

\* The finally block of runSpan at time t, up to the await of the exporter
Finally(sp, t) ==
    IF ShouldExport(sp)
    THEN [sp EXCEPT !.endTimeUnixNano = t, !.pc = "exporting"]
    ELSE [sp EXCEPT !.endTimeUnixNano = t, !.pc = "done", !.result = sp.pending]

----------------------------------------------------------------------------
(* batchingExporter: options and the stage before any call *)

DefaultInterval == 1000
DefaultMaxBatchSize == 35
DefaultBatchingQueueSize == 100000
DefaultBatchingTrimSize == 1000

\* {interval, batchingInterval, maxBatchSize, maxQueueSize}, each with its has-flag
BatchingOption(hasI, i, hasB, b, hasS, s, hasQ, q) ==
    [hasInterval |-> hasI, interval |-> i,
     hasBatchingInterval |-> hasB, batchingInterval |-> b,
     hasMaxBatchSize |-> hasS, maxBatchSize |-> s,
     hasMaxQueueSize |-> hasQ, maxQueueSize |-> q]

NoBatchingOptions == BatchingOption(FALSE, 0, FALSE, 0, FALSE, 0, FALSE, 0)

\* BatchingExportOptions; a field that is not given has its has-flag FALSE
BatchingOptions ==
    { NoBatchingOptions,
      BatchingOption(TRUE, 500, FALSE, 0, TRUE, 35, FALSE, 0),
      BatchingOption(TRUE, 500, TRUE, 100, TRUE, 2, TRUE, 3),
      BatchingOption(FALSE, 0, TRUE, 100, TRUE, 2, FALSE, 0),
      BatchingOption(FALSE, 0, FALSE, 0, FALSE, 0, TRUE, 3) }

\* let timer = null: no timeout is referenced; live counts the timeouts that
\* were set and have neither fired nor been cleared
NoTimer == [armed |-> FALSE, delay |-> 0, live |-> 0]

NoBatchingCall == [op |-> "none", events |-> <<>>, pending |-> <<>>, timer |-> NoTimer, calls |-> 0]

BatchingIdle ==
    /\ bopts = NoBatchingOptions
    /\ btimer = NoTimer
    /\ bpending = <<>>
    /\ bcalls = <<>>
    /\ bnext = 1
    /\ bsubs = 0
    /\ bfired = FALSE
    /\ blate = FALSE
    /\ blast = NoBatchingCall
    /\ bdropped = <<>>

----------------------------------------------------------------------------
(* bufferedExporter: options and the stage before any call *)

\* BufferedExportOptions; maxBatchSize is not given when its has-flag is FALSE
BufferedOptions ==
    [hasMaxBatchSize : {TRUE}, maxBatchSize : {0, 1, 2}]
    \cup [hasMaxBatchSize : {FALSE}, maxBatchSize : {0}]

NoBufferedOptions == [hasMaxBatchSize |-> FALSE, maxBatchSize |-> 0]

BufferedIdle ==
    /\ fopts = NoBufferedOptions
    /\ fused = FALSE
    /\ fpending = <<>>
    /\ fcalls = <<>>
    /\ fprocs = <<>>
    /\ fnext = 1
    /\ fsubs = 0

----------------------------------------------------------------------------
(* collect: the shaper before it is given a batch *)

NotShaped ==
    [done |-> FALSE, raised |-> FALSE, traces |-> <<>>, logs |-> <<>>,
     measurements |-> <<>>, exceptions |-> <<>>, events |-> <<>>]

\* faroExporter before it is called.  meta is what options.meta() returns:
\* meta.app may be missing, and so may meta.app.name.  nav is what the
\* environment offers: "none" when typeof navigator is 'undefined',
\* "nobeacon" when navigator has no sendBeacon, "accepts" and "refuses" for a
\* sendBeacon that returns true and false.
Meta(hasApp, hasName, name) == [hasApp |-> hasApp, hasName |-> hasName, name |-> name]
EmptyObject == [k \in {} |-> <<>>]
NoExport ==
    [pc |-> "idle", meta |-> Meta(FALSE, FALSE, ""), nav |-> "none", hasBody |-> FALSE,
     body |-> EmptyObject, beacons |-> 0, posts |-> 0, postFailed |-> FALSE, logged |-> 0,
     promise |-> "none"]

ShaperIdle ==
    /\ batch = <<>>
    /\ shaped = NotShaped
    /\ faro = NoExport

----------------------------------------------------------------------------
(* tracer, dummyTracer and instrumentUnhandledErrors before any call *)

NoTracer == [kind |-> "none", parent |-> AbsentParent]
NoUnhandledOptions == [hasIgnore |-> FALSE, ignored |-> {}]

\* The window as instrumentUnhandledErrors sees it.  A handler is -1 for null,
\* 0 for the handler the page had set itself, and k for the onError of the
\* k-th instrumentation.  onerror is window.onerror, prior is what it was
\* before any instrumentation, rejects are the instrumentations whose onReject
\* is a listener of unhandledrejection, in the order they were added, and
\* insts has for each instrumentation its original, whether its stop function
\* was called, and whether its handleError sent an error after that.
Window(prior) == [onerror |-> prior, prior |-> prior, rejects |-> <<>>, insts |-> <<>>, pageRan |-> FALSE]
NoWindow == Window(-1)

\* parseStackTrace before it is given a stack
NotParsed ==
    [engine |-> "none", calls |-> <<>>, stack |-> <<>>, done |-> FALSE, defined |-> FALSE,
     frames |-> <<>>]

StackIdle == parsed = NotParsed

TracerIdle ==
    /\ tr = NoTracer
    /\ tcalls = <<>>
    /\ uopts = NoUnhandledOptions
    /\ uon = NoWindow

----------------------------------------------------------------------------
(* pausableExporter *)

DefaultMaxQueueSize == 100000

\* PausableExporterOptions; a field that is not given has its has-flag FALSE
PausableOptions ==
    [startPaused : {"true", "false", "undefined"},
     hasMaxQueueSize : {TRUE}, maxQueueSize : {0, 1, 2}]
    \cup [startPaused : {"true", "false", "undefined"},
          hasMaxQueueSize : {FALSE}, maxQueueSize : {0}]

NoPausableOptions == [startPaused |-> "undefined", hasMaxQueueSize |-> FALSE, maxQueueSize |-> 0]

\* options?.maxQueueSize ?? 100000
PausableLimit(o) == IF o.hasMaxQueueSize THEN o.maxQueueSize ELSE DefaultMaxQueueSize

Min(a, b) == IF a < b THEN a ELSE b

DropFirst_Keep(q, n) == q

\* array.splice(0, n): what is left of the array
DropFirst(q, n) == SubSeq(q, n + 1, Len(q))

TakeFirst_Last(q, n) == SubSeq(q, Len(q) - Min(n, Len(q)) + 1, Len(q))

\* array.splice(0, n): the removed items, which it returns
TakeFirst(q, n) == SubSeq(q, 1, Min(n, Len(q)))

\* The items numbered from..(from + n - 1)
Items(from, n) == [k \in 1..n |-> from + k - 1]

PausablePush_DropNewest(o, q, events) ==
    LET all == q \o events
    IN IF Len(all) > PausableLimit(o) THEN SubSeq(all, 1, PausableLimit(o)) ELSE all

\* pausableExporter while paused: push, then drop the oldest above the limit
PausablePush(o, q, events) ==
    LET all == q \o events
    IN IF Len(all) > PausableLimit(o)
       THEN DropFirst(all, Len(all) - PausableLimit(o))
       ELSE all

\* pausableExporter while paused: the items that the splice removes
PausableTrimmed(o, q, events) ==
    LET all == q \o events
    IN IF Len(all) > PausableLimit(o)
       THEN TakeFirst(all, Len(all) - PausableLimit(o))
       ELSE <<>>

NoCall ==
    [op |-> "none", events |-> <<>>, on |-> "undefined", paused |-> FALSE,
     pending |-> <<>>, buf |-> <<>>, ncalls |-> 0, ret |-> FALSE]

Call(op, events, on, ret) ==
    [op |-> op, events |-> events, on |-> on, paused |-> paused,
     pending |-> ppending, buf |-> pbuf, ncalls |-> Len(pcalls), ret |-> ret]

InitPausable ==
    /\ popts \in PausableOptions
    /\ paused = (popts.startPaused = "true")
    /\ ppending = <<>>
    /\ pcalls = <<>>
    /\ pnext = 1
    /\ psubs = 0
    /\ plast = NoCall
    /\ pbuf = <<>>
    /\ pdropped = <<>>
    /\ SpanIdle
    /\ BatchingIdle
    /\ BufferedIdle
    /\ ShaperIdle
    /\ TracerIdle
    /\ StackIdle

PausableRoutesToQueue_Never(p) == FALSE

\* if (paused) in pausableExporter
PausableRoutesToQueue(p) == p

\* The function that pausableExporter returns, called with the events
pausableExporter(events) ==
    /\ IF PausableRoutesToQueue(paused)
       THEN /\ ppending' = PausablePush(popts, ppending, events)
            /\ pdropped' = pdropped \o PausableTrimmed(popts, ppending, events)
            /\ pbuf' = pbuf \o events
            /\ pcalls' = pcalls
       ELSE /\ pcalls' = Append(pcalls, events)
            /\ UNCHANGED <<ppending, pbuf, pdropped>>
    /\ plast' = Call("submit", events, "undefined", FALSE)
    /\ pnext' = pnext + Len(events)
    /\ UNCHANGED <<popts, paused>>

\* pausableExporter(...events) with n events, the stage on its own
PausableSubmit(n) ==
    /\ pausableExporter(Items(pnext, n))
    /\ UNCHANGED <<spanVars, batchingVars, bufferedVars, shaperVars, tracerVars, stackVars>>

\* on ?? !paused
ToggleTarget(on, p) == IF on = "undefined" THEN ~p ELSE on = "true"

ToggleFlushes_Never(p, q) == FALSE

ToggleFlushes_Always(p, q) == ~p

\* if (!paused && pending.length) in toggle
ToggleFlushes(p, q) == ~p /\ Len(q) > 0

\* toggle(on)
toggle(on) ==
    /\ paused' = ToggleTarget(on, paused)
    /\ IF ToggleFlushes(paused', ppending)
       THEN /\ pcalls' = Append(pcalls, ppending)
            /\ ppending' = <<>>
       ELSE UNCHANGED <<pcalls, ppending>>
    /\ pbuf' = IF paused' THEN pbuf ELSE <<>>
    /\ plast' = Call("toggle", <<>>, on, paused')
    /\ UNCHANGED <<popts, pnext, psubs, pdropped>>

\* toggle(on), the stage on its own
PausableToggle(on) ==
    /\ toggle(on)
    /\ UNCHANGED <<spanVars, batchingVars, bufferedVars, shaperVars, tracerVars, stackVars>>

\* A call with at most MaxCallItems events
PausableSubmitFew ==
    /\ psubs < MaxSubmits
    /\ psubs' = psubs + 1
    /\ \E n \in 0..MaxCallItems : PausableSubmit(n)

\* One call with more events than the default limit, on a stage that was given
\* no maxQueueSize and has not been called before; one more call may follow
PausableSubmitMany ==
    /\ psubs = 0
    /\ psubs' = MaxSubmits - 1
    /\ ~popts.hasMaxQueueSize
    /\ PausableSubmit(DefaultMaxQueueSize + 1)

NextPausable ==
    \/ PausableSubmitFew
    \/ PausableSubmitMany
    \/ \E on \in {"true", "false", "undefined"} : PausableToggle(on)

SpecPausable == InitPausable /\ [][NextPausable]_vars

----------------------------------------------------------------------------
(* The pausable stage while the span engine runs *)

PausableIdle ==
    /\ popts = NoPausableOptions
    /\ paused = FALSE
    /\ ppending = <<>>
    /\ pcalls = <<>>
    /\ pnext = 1
    /\ psubs = 0
    /\ plast = NoCall
    /\ pbuf = <<>>
    /\ pdropped = <<>>

----------------------------------------------------------------------------
(* The span engine *)

InitSpan ==
    /\ SpanIdle
    /\ PausableIdle
    /\ BatchingIdle
    /\ BufferedIdle
    /\ ShaperIdle
    /\ TracerIdle
    /\ StackIdle

Running(i) == i \in 1..Len(spans) /\ spans[i].pc = "body"

\* tracer(exporter, parent).run, dummyTracer.run or runSpan called by the application
StartRoot(exp, P) ==
    /\ spans = <<>>
    /\ spans' = Append(spans, NewRunningSpan(exp, P, 0, FALSE, nextId))
    /\ nextId' = nextId + IdsDrawn(P)
    /\ UNCHANGED exported
    /\ UNCHANGED bodyCalls
    /\ UNCHANGED <<made, pausableVars, batchingVars, bufferedVars, shaperVars, tracerVars, stackVars>>

\* newSpan.run called by the body of span i
StartChild(i) ==
    /\ Running(i)
    /\ Len(spans) < MaxSpans
    /\ LET P == AsParent(spans[i])
       IN /\ spans' = Append(spans, NewRunningSpan(spans[i].exp, P, i, spans[i].cancelled, nextId))
          /\ nextId' = nextId + IdsDrawn(P)
    /\ UNCHANGED exported
    /\ UNCHANGED bodyCalls
    /\ UNCHANGED <<made, pausableVars, batchingVars, bufferedVars, shaperVars, tracerVars, stackVars>>

\* newSpan.cancel called by the body of span i
Cancel(i) ==
    /\ Running(i)
    /\ spans' = [spans EXCEPT ![i] = cancel(@)]
    /\ UNCHANGED <<nextId, exported>>
    /\ UNCHANGED bodyCalls
    /\ UNCHANGED <<made, pausableVars, batchingVars, bufferedVars, shaperVars, tracerVars, stackVars>>

\* newSpan.mark called by the body of span i
Mark(i, name) ==
    /\ Running(i)
    /\ bodyCalls < MaxBodyCalls
    /\ spans' = [spans EXCEPT ![i] = mark(@, name, FALSE, <<>>)]
    /\ bodyCalls' = bodyCalls + 1
    /\ UNCHANGED <<nextId, exported>>
    /\ UNCHANGED <<made, pausableVars, batchingVars, bufferedVars, shaperVars, tracerVars, stackVars>>

\* newSpan.span called by the body of span i: span(exporter, scope, newSpan, details).
\* With no exporter the call raises after makeSpan has run.
SpanHelper(i, details) ==
    /\ Running(i)
    /\ bodyCalls < MaxBodyCalls
    /\ bodyCalls' = bodyCalls + 1
    /\ LET P == AsParent(spans[i])
       IN /\ nextId' = nextId + IdsDrawn(P)
          /\ exported' =
                IF spans[i].exp
                THEN Append(exported,
                            ExportItem("span", i, spans[i].cancelled, makeSpan(P, details, nextId, now)))
                ELSE exported
    /\ UNCHANGED spans
    /\ UNCHANGED <<made, pausableVars, batchingVars, bufferedVars, shaperVars, tracerVars, stackVars>>

\* The body of span i is at an await of a nested run that has not settled
Awaiting(i) ==
    \E j \in 1..Len(spans) : spans[j].creator = i /\ spans[j].awaited /\ spans[j].pc # "done"

\* The body of span i returns at time t: try, finally
BodyReturnAt(i, t) ==
    /\ Running(i)
    /\ ~Awaiting(i)
    /\ LET s1 == [spans[i] EXCEPT !.pending = Returned,
                                  !.evAtFinish = Len(spans[i].events),
                                  !.sampleAtFinish = spans[i].sample,
                                  !.finishedAt = t]
           s2 == Finally(s1, t)
       IN /\ spans' = [spans EXCEPT ![i] = s2]
          /\ exported' = IF s2.pc = "exporting"
                         THEN Append(exported, ExportItem("run", i, s2.cancelled \/ s2.afterCancel, SpanOf(s2)))
                         ELSE exported
    /\ UNCHANGED nextId
    /\ UNCHANGED bodyCalls
    /\ UNCHANGED <<made, pausableVars, batchingVars, bufferedVars, shaperVars, tracerVars, stackVars>>

BodyReturn(i) == BodyReturnAt(i, now)

\* The body of span i throws e at time t: try, catch, finally
BodyThrowAt(i, e, t) ==
    /\ Running(i)
    /\ ~Awaiting(i)
    /\ LET s1 == [spans[i] EXCEPT !.thrown = e,
                                  !.evAtFinish = Len(spans[i].events),
                                  !.sampleAtFinish = spans[i].sample,
                                  !.finishedAt = t]
           s2 == Finally(Catch(s1, e), t)
       IN /\ spans' = [spans EXCEPT ![i] = s2]
          /\ exported' = IF s2.pc = "exporting"
                         THEN Append(exported, ExportItem("run", i, s2.cancelled \/ s2.afterCancel, SpanOf(s2)))
                         ELSE exported
    /\ UNCHANGED nextId
    /\ UNCHANGED bodyCalls
    /\ UNCHANGED <<made, pausableVars, batchingVars, bufferedVars, shaperVars, tracerVars, stackVars>>

BodyThrow(i, e) == BodyThrowAt(i, e, now)

\* await newSpan.run(scope, fn) in the body of span i: the body goes on when
\* the promise of the nested run has settled
AwaitChild(i) ==
    /\ Running(i)
    /\ ~Awaiting(i)
    /\ Len(spans) < MaxSpans
    /\ LET P == AsParent(spans[i])
       IN /\ spans' = Append(spans, [NewRunningSpan(spans[i].exp, P, i, spans[i].cancelled, nextId)
                                        EXCEPT !.awaited = TRUE])
          /\ nextId' = nextId + IdsDrawn(P)
    /\ UNCHANGED exported
    /\ UNCHANGED bodyCalls
    /\ UNCHANGED <<made, pausableVars, batchingVars, bufferedVars, shaperVars, tracerVars, stackVars>>

\* The promise of the exporter called in the finally block settles.  A rejection
\* (or an exporter that throws) replaces the outcome of the try and catch blocks.
ExportSettle(i, ok) ==
    /\ i \in 1..Len(spans)
    /\ spans[i].pc = "exporting"
    /\ spans' = [spans EXCEPT ![i] =
                    [@ EXCEPT !.pc = "done",
                              !.result = IF ok THEN spans[i].pending ELSE Threw(ExportError)]]
    /\ UNCHANGED <<nextId, exported>>
    /\ UNCHANGED bodyCalls
    /\ UNCHANGED <<made, pausableVars, batchingVars, bufferedVars, shaperVars, tracerVars, stackVars>>

MarkNames == {"m", "error"}
HelperDetails == {NoDetails, [name |-> <<"n">>]}

\* The runs the application can start: tracer(exporter, parent).run, or
\* dummyTracer.run, which is runSpan(null, scope, null, fn)
Roots == {<<TRUE, P>> : P \in RunParents} \cup {<<FALSE, AbsentParent>>}

\* Nested runs: the bodies start runs, cancel, return or throw an Error, at any
\* depth and in any interleaving
NextSpan ==
    \/ \E r \in Roots : StartRoot(r[1], r[2])
    \/ \E i \in 1..Len(spans) : StartChild(i)
    \/ \E i \in 1..Len(spans) : Cancel(i)
    \/ \E i \in 1..Len(spans) : BodyReturn(i)
    \/ \E i \in 1..Len(spans) : BodyThrow(i, "E1")
    \/ \E i \in 1..Len(spans), ok \in BOOLEAN : ExportSettle(i, ok)

SpecSpan == InitSpan /\ [][NextSpan]_vars

\* One run and what its body can do with the span it is handed: mark, span,
\* cancel, one nested run, return or throw anything
NextRun ==
    \/ \E r \in Roots : StartRoot(r[1], r[2])
    \/ Len(spans) = 1 /\ StartChild(1)
    \/ \E i \in 1..Len(spans) : Cancel(i)
    \/ \E i \in 1..Len(spans), name \in MarkNames : Mark(i, name)
    \/ \E i \in 1..Len(spans), d \in HelperDetails : SpanHelper(i, d)
    \/ \E i \in 1..Len(spans) : BodyReturn(i)
    \/ \E i \in 1..Len(spans), e \in Thrown : BodyThrow(i, e)
    \/ \E i \in 1..Len(spans), ok \in BOOLEAN : ExportSettle(i, ok)

SpecRun == InitSpan /\ [][NextRun]_vars

\* One run whose body awaits a nested run, whose body awaits another, and so
\* on, or starts one without awaiting it; the bodies mark and cancel while no
\* await holds them, and end later than they started
NextAwait ==
    \/ StartRoot(TRUE, AbsentParent)
    \/ AwaitChild(Len(spans))
    \/ Len(spans) = 1 /\ ~Awaiting(1) /\ StartChild(1)
    \/ \E i \in 1..Len(spans) : ~Awaiting(i) /\ Cancel(i)
    \/ \E i \in 1..Len(spans) : ~Awaiting(i) /\ Mark(i, "m")
    \/ \E i \in 1..Len(spans) : BodyReturnAt(i, now + 1)
    \/ \E i \in 1..Len(spans) : BodyThrowAt(i, "E1", now + 1)
    \/ \E i \in 1..Len(spans) : ExportSettle(i, TRUE)

SpecAwait == InitSpan /\ [][NextAwait]_vars

\* makeSpan called directly, with any parent reference: one from outside, or a
\* span made before
MakeSpanCall(P, details, t) ==
    /\ Len(made) < MaxMade
    /\ made' = Append(made, [parent |-> P, details |-> details, born |-> nextId, at |-> t,
                             span |-> makeSpan(P, details, nextId, t)])
    /\ nextId' = nextId + IdsDrawn(P)
    /\ UNCHANGED <<spans, exported, bodyCalls, pausableVars, batchingVars, bufferedVars, shaperVars, tracerVars, stackVars>>

MadeParents == {AsParent(made[k].span) : k \in 1..Len(made)}

\* The details given to makeSpan
MadeDetails ==
    HelperDetails \cup {[sample |-> FALSE], [sample |-> TRUE, endTimeUnixNano |-> now + 2]}

NextMakeSpan ==
    \E P \in RootParents \cup MadeParents, d \in MadeDetails, t \in Times : MakeSpanCall(P, d, t)

SpecMakeSpan == InitSpan /\ [][NextMakeSpan]_vars

FlagsOf_Padded(sample) == IF sample THEN <<"01">> ELSE <<"00">>

\* Number(newSpan.sample).toString(16)
FlagsOf(sample) == IF sample THEN <<"1">> ELSE <<"0">>

\* runSpan.traceparent
traceparent(sp) ==
    <<"00", DASH>> \o sp.traceId \o <<DASH>> \o sp.spanId \o <<DASH>> \o FlagsOf(sp.sample)

\* The body of span i calls newSpan.traceparent() and sends the string to a
\* service, which makes a span with the string as its parent
Propagate(i, t) ==
    /\ Running(i)
    /\ Len(made) < MaxMade
    /\ LET str == traceparent(spans[i])
       IN /\ made' = Append(made, [parent |-> StringParent(str), details |-> NoDetails,
                                   born |-> nextId, at |-> t,
                                   span |-> makeSpan(StringParent(str), NoDetails, nextId, t),
                                   of |-> i, str |-> str, sample |-> spans[i].sample])
          /\ nextId' = nextId + IdsDrawn(StringParent(str))
    /\ UNCHANGED <<spans, exported, bodyCalls, pausableVars, batchingVars, bufferedVars, shaperVars, tracerVars, stackVars>>

\* One run and one nested run, whose bodies cancel and propagate in any order
NextPropagate ==
    \/ \E r \in Roots : StartRoot(r[1], r[2])
    \/ Len(spans) = 1 /\ StartChild(1)
    \/ \E i \in 1..Len(spans) : Cancel(i)
    \/ \E i \in 1..Len(spans) : Propagate(i, now)

SpecPropagate == InitSpan /\ [][NextPropagate]_vars

----------------------------------------------------------------------------
(* batchingExporter *)

\* options?.interval ?? 1000
InitialDelay(o) == IF o.hasInterval THEN o.interval ELSE DefaultInterval

BatchingDelay_Initial(o) == IF o.hasInterval THEN o.interval ELSE DefaultInterval

\* options?.batchingInterval ?? options?.interval ?? 1000
BatchingDelay(o) ==
    IF o.hasBatchingInterval THEN o.batchingInterval
    ELSE IF o.hasInterval THEN o.interval
    ELSE DefaultInterval

BatchSize_OneMore(o) == IF o.hasMaxBatchSize THEN o.maxBatchSize + 1 ELSE DefaultMaxBatchSize + 1

\* options?.maxBatchSize ?? 35
BatchSize(o) == IF o.hasMaxBatchSize THEN o.maxBatchSize ELSE DefaultMaxBatchSize

\* options?.maxQueueSize ?? 100000, the limit that the length is compared with
BatchingLimit(o) == IF o.hasMaxQueueSize THEN o.maxQueueSize ELSE DefaultBatchingQueueSize

\* options?.maxQueueSize ?? 1000, the length that the splice leaves
BatchingKeep(o) == IF o.hasMaxQueueSize THEN o.maxQueueSize ELSE DefaultBatchingTrimSize

\* batchingExporter: push, then drop from the front when above the limit
BatchingPush(o, q, events) ==
    LET all == q \o events
    IN IF Len(all) > BatchingLimit(o) THEN DropFirst(all, Len(all) - BatchingKeep(o)) ELSE all

\* batchingExporter: the items that the splice removes
BatchingTrimmed(o, q, events) ==
    LET all == q \o events
    IN IF Len(all) > BatchingLimit(o) THEN TakeFirst(all, Len(all) - BatchingKeep(o)) ELSE <<>>

\* A call of the stage: the operation, its events, and the queue, the timer and
\* the number of inner calls that it found
BatchingCall(op, events) == [op |-> op, events |-> events, pending |-> bpending, timer |-> btimer, calls |-> Len(bcalls)]

\* timer = setTimeout(processBatch, delay), with live timeouts still set
setTimeout(live, delay) == [armed |-> TRUE, delay |-> delay, live |-> live + 1]

\* timer = null, with live timeouts still set
Unset(live) == [armed |-> FALSE, delay |-> 0, live |-> live]

\* The timeouts that stay set when timer has fired or clearTimeout(timer) ran
clearTimeout(timer) == IF timer.armed THEN timer.live - 1 ELSE timer.live

ArmsOnSubmit_Always(timer) == TRUE

\* if (null === timer)
ArmsOnSubmit(timer) == ~timer.armed

Rearms_Never(rest) == FALSE

\* if (pending.length)
Rearms(rest) == Len(rest) > 0

InitBatching ==
    /\ bopts \in BatchingOptions
    /\ btimer = NoTimer
    /\ bpending = <<>>
    /\ bcalls = <<>>
    /\ bnext = 1
    /\ bsubs = 0
    /\ bfired = FALSE
    /\ blate = FALSE
    /\ blast = NoBatchingCall
    /\ bdropped = <<>>
    /\ SpanIdle
    /\ PausableIdle
    /\ BufferedIdle
    /\ ShaperIdle
    /\ TracerIdle
    /\ StackIdle

\* The function that batchingExporter returns, called with the events
batchingExporter(events) ==
    /\ bpending' = BatchingPush(bopts, bpending, events)
    /\ bdropped' = bdropped \o BatchingTrimmed(bopts, bpending, events)
    /\ btimer' = IF ArmsOnSubmit(btimer) THEN setTimeout(btimer.live, InitialDelay(bopts)) ELSE btimer
    /\ bnext' = bnext + Len(events)
    /\ blate' = (blate \/ bfired)
    /\ blast' = BatchingCall("submit", events)
    /\ UNCHANGED <<bopts, bcalls, bfired>>

\* batchingExporter(...events) with n events, the stage on its own
BatchingSubmit(n) ==
    /\ bsubs < MaxSubmits
    /\ bsubs' = bsubs + 1
    /\ batchingExporter(Items(bnext, n))
    /\ UNCHANGED <<spanVars, pausableVars, bufferedVars, shaperVars, tracerVars, stackVars>>

\* One call with more events than the default limit, on a stage that was given
\* no maxQueueSize and has not been called before; no call follows
BatchingSubmitMany ==
    /\ bsubs = 0
    /\ bsubs' = MaxSubmits
    /\ ~bopts.hasMaxQueueSize
    /\ batchingExporter(Items(bnext, DefaultBatchingQueueSize + 1))
    /\ UNCHANGED <<spanVars, pausableVars, bufferedVars, shaperVars, tracerVars, stackVars>>

NextBatch_Newest == TakeFirst_Last(bpending, BatchSize(bopts))

\* The batch that processBatch takes from the queue
NextBatch == TakeFirst(bpending, BatchSize(bopts))

\* processBatch, run by the timer or by a teardown hook (op)
processBatch(op) ==
    LET rest == DropFirst(bpending, Len(NextBatch))
    IN /\ bpending' = rest
       /\ btimer' = IF Rearms(rest) THEN setTimeout(clearTimeout(btimer), BatchingDelay(bopts))
                     ELSE Unset(clearTimeout(btimer))
       /\ bcalls' = IF Len(NextBatch) > 0 THEN Append(bcalls, NextBatch) ELSE bcalls
       /\ bfired' = TRUE
       /\ blast' = BatchingCall(op, <<>>)
       /\ UNCHANGED <<bopts, bnext, bsubs, blate, bdropped>>

\* The armed timer fires
TimerFire ==
    /\ btimer.armed
    /\ processBatch("timer")
    /\ UNCHANGED <<spanVars, pausableVars, bufferedVars, shaperVars, tracerVars, stackVars>>

\* visibilitychange to hidden, pagehide, or the exit of the process
Teardown ==
    /\ processBatch("teardown")
    /\ UNCHANGED <<spanVars, pausableVars, bufferedVars, shaperVars, tracerVars, stackVars>>

\* The numbers of events of one call of the stage's exporter
CallSizes ==
    (0..MaxCallItems) \cup {DefaultMaxBatchSize, DefaultMaxBatchSize + 1}

NextBatching ==
    \/ \E n \in CallSizes : BatchingSubmit(n)
    \/ BatchingSubmitMany
    \/ TimerFire
    \/ Teardown

SpecBatching == InitBatching /\ [][NextBatching]_vars

\* Calls of a few events each, with firings and teardowns between them
NextBatchingLive ==
    \/ \E n \in 0..MaxCallItems : BatchingSubmit(n)
    \/ TimerFire
    \/ Teardown

\* A timeout that stays set fires: the event loop runs the callback of every
\* timeout that is not cleared
SpecBatchingLive == InitBatching /\ [][NextBatchingLive]_vars /\ WF_vars(TimerFire)

----------------------------------------------------------------------------
(* bufferedExporter *)

DefaultBufferedBatchSize == 35

\* options?.maxBatchSize ?? 35
BufferedLimit(o) == IF o.hasMaxBatchSize THEN o.maxBatchSize ELSE DefaultBufferedBatchSize

\* A call of the inner exporter: its arguments, the call of the stage (an
\* index of fprocs) that made it, and the state of the promise it returned
InnerCall(items, by) == [items |-> items, by |-> by, state |-> "inflight"]

\* A call of obj.exporter or obj.send: where it is (pc), its arguments, the
\* queue and the number of inner calls it found, the number of inner calls
\* and the length of the queue when it settled, and whether no call of
\* obj.exporter arrived while it was waiting
Proc(op, events) ==
    [op |-> op, pc |-> "start", events |-> events, pre |-> fpending,
     before |-> Len(fcalls), after |-> 0, left |-> 0, alone |-> TRUE]

\* The call p of the stage settles: "done" (resolved) or "failed" (rejected)
Settle(procs, p, pc, q, calls) ==
    [procs EXCEPT ![p].pc = pc, ![p].after = Len(calls), ![p].left = Len(q)]

\* The while loop of send, run by the call p from its test to the next await
\* or to its end
SendLoop(procs, p, q, calls) ==
    IF Len(q) > 0
    THEN LET chunk == TakeFirst(q, BufferedLimit(fopts))
         IN [procs |-> [procs EXCEPT ![p].pc = "await"],
             pending |-> DropFirst(q, Len(chunk)),
             calls |-> Append(calls, InnerCall(chunk, p))]
    ELSE [procs |-> Settle(procs, p, "done", q, calls), pending |-> q, calls |-> calls]

\* How many calls of the inner exporter had no arguments
EmptyCalls == Cardinality({c \in DOMAIN fcalls : fcalls[c].items = <<>>})

\* With maxBatchSize = 0 the loop of send never ends; the model stops it
\* after MaxEmptyCalls calls
MayLoop(q) == (Len(q) > 0 /\ BufferedLimit(fopts) = 0) => EmptyCalls < MaxEmptyCalls

\* The calls of the stage that wait for the inner exporter have seen another
\* call of obj.exporter arrive
Overtaken(procs) ==
    [i \in DOMAIN procs |->
        IF procs[i].pc = "await" THEN [procs[i] EXCEPT !.alone = FALSE] ELSE procs[i]]

\* obj.exporter(...events)
bufferedExporter(events) ==
    LET p == Len(fprocs) + 1
        q == fpending \o events
        procs == Append(Overtaken(fprocs), Proc("exporter", events))
        r == IF Len(q) > BufferedLimit(fopts)
             THEN SendLoop(procs, p, q, fcalls)
             ELSE [procs |-> Settle(procs, p, "done", q, fcalls), pending |-> q, calls |-> fcalls]
    IN /\ MayLoop(q)
       /\ fused' = TRUE
       /\ fprocs' = r.procs
       /\ fpending' = r.pending
       /\ fcalls' = r.calls
       /\ fnext' = fnext + Len(events)
       /\ UNCHANGED fopts

\* obj.send()
send ==
    LET p == Len(fprocs) + 1
        procs == Append(fprocs, Proc("send", <<>>))
        r == IF ~fused
             THEN [procs |-> Settle(procs, p, "done", fpending, fcalls),
                   pending |-> fpending, calls |-> fcalls]
             ELSE SendLoop(procs, p, fpending, fcalls)
    IN /\ MayLoop(fpending)
       /\ fprocs' = r.procs
       /\ fpending' = r.pending
       /\ fcalls' = r.calls
       /\ UNCHANGED <<fopts, fused, fnext>>

\* The inner call that the call p of the stage waits for
Awaited(p) == CHOOSE c \in DOMAIN fcalls : fcalls[c].by = p /\ fcalls[c].state = "inflight"

\* await exporter(...batch) in send: the promise resolves and the loop goes on
Resolve(p) ==
    /\ p \in DOMAIN fprocs
    /\ fprocs[p].pc = "await"
    /\ MayLoop(fpending)
    /\ LET r == SendLoop(fprocs, p, fpending, [fcalls EXCEPT ![Awaited(p)].state = "resolved"])
       IN /\ fprocs' = r.procs
          /\ fpending' = r.pending
          /\ fcalls' = r.calls
    /\ UNCHANGED <<fopts, fused, fnext, fsubs>>

\* await exporter(...batch) in send: the promise rejects and send rejects
Reject(p) ==
    /\ p \in DOMAIN fprocs
    /\ fprocs[p].pc = "await"
    /\ fcalls' = [fcalls EXCEPT ![Awaited(p)].state = "rejected"]
    /\ fprocs' = Settle(fprocs, p, "failed", fpending, fcalls)
    /\ UNCHANGED <<fopts, fused, fpending, fnext, fsubs>>

InitBuffered ==
    /\ fopts \in BufferedOptions
    /\ fused = FALSE
    /\ fpending = <<>>
    /\ fcalls = <<>>
    /\ fprocs = <<>>
    /\ fnext = 1
    /\ fsubs = 0
    /\ SpanIdle
    /\ PausableIdle
    /\ BatchingIdle
    /\ ShaperIdle
    /\ TracerIdle
    /\ StackIdle

\* obj.exporter(...events) with n events, the stage on its own
BufferedSubmit(n) ==
    /\ fsubs < MaxBufferedCalls
    /\ fsubs' = fsubs + 1
    /\ bufferedExporter(Items(fnext, n))
    /\ UNCHANGED <<spanVars, pausableVars, batchingVars, shaperVars, tracerVars, stackVars>>

\* obj.exporter(...events) with about as many events as the default
\* maxBatchSize, on a stage that was given no maxBatchSize
BufferedSubmitBatch ==
    /\ ~fopts.hasMaxBatchSize
    /\ \E n \in {DefaultBufferedBatchSize, DefaultBufferedBatchSize + 1} : BufferedSubmit(n)

\* obj.send(), the stage on its own
BufferedSend ==
    /\ fsubs < MaxBufferedCalls
    /\ fsubs' = fsubs + 1
    /\ send
    /\ UNCHANGED <<spanVars, pausableVars, batchingVars, shaperVars, tracerVars, stackVars>>

\* The inner exporter settles one of its calls
InnerResolve ==
    /\ \E p \in DOMAIN fprocs : Resolve(p)
    /\ UNCHANGED <<spanVars, pausableVars, batchingVars, shaperVars, tracerVars, stackVars>>

InnerReject ==
    /\ \E p \in DOMAIN fprocs : Reject(p)
    /\ UNCHANGED <<spanVars, pausableVars, batchingVars, shaperVars, tracerVars, stackVars>>

\* The numbers of events of one call of obj.exporter
BufferedCallSizes == {0, 1, 2}

NextBuffered ==
    \/ \E n \in BufferedCallSizes : BufferedSubmit(n)
    \/ BufferedSubmitBatch
    \/ BufferedSend
    \/ InnerResolve
    \/ InnerReject

SpecBuffered == InitBuffered /\ [][NextBuffered]_vars

----------------------------------------------------------------------------
(* The pipeline pausableExporter(batchingExporter(bufferedExporter(sink).exporter)) *)

PipelinePausableOptions ==
    [startPaused : {"true"}, hasMaxQueueSize : {TRUE}, maxQueueSize : {1}]

PipelineBatchingOptions ==
    { BatchingOption(TRUE, 500, TRUE, 100, TRUE, 1, TRUE, 2) }

PipelineBufferedOptions ==
    { NoBufferedOptions, [hasMaxBatchSize |-> TRUE, maxBatchSize |-> 1] }

InitPipeline ==
    /\ popts \in PipelinePausableOptions
    /\ paused = (popts.startPaused = "true")
    /\ ppending = <<>>
    /\ pcalls = <<>>
    /\ pnext = 1
    /\ psubs = 0
    /\ plast = NoCall
    /\ pbuf = <<>>
    /\ pdropped = <<>>
    /\ bopts \in PipelineBatchingOptions
    /\ btimer = NoTimer
    /\ bpending = <<>>
    /\ bcalls = <<>>
    /\ bnext = 1
    /\ bsubs = 0
    /\ bfired = FALSE
    /\ blate = FALSE
    /\ blast = NoBatchingCall
    /\ bdropped = <<>>
    /\ fopts \in PipelineBufferedOptions
    /\ fused = FALSE
    /\ fpending = <<>>
    /\ fcalls = <<>>
    /\ fprocs = <<>>
    /\ fnext = 1
    /\ fsubs = 0
    /\ SpanIdle
    /\ ShaperIdle
    /\ TracerIdle
    /\ StackIdle

\* A call of the pausable stage's exporter; when the stage is not paused it
\* calls the batching stage's exporter with the same events
PipelineSubmit(n) ==
    /\ psubs < MaxPipelineSubmits
    /\ psubs' = psubs + 1
    /\ pausableExporter(Items(pnext, n))
    /\ IF PausableRoutesToQueue(paused)
       THEN UNCHANGED batchingVars
       ELSE batchingExporter(Items(pnext, n)) /\ UNCHANGED bsubs
    /\ UNCHANGED <<spanVars, bufferedVars, shaperVars, tracerVars, stackVars>>

\* toggle(on); a flush calls the batching stage's exporter with the queue
PipelineToggle(on) ==
    /\ toggle(on)
    /\ IF ToggleFlushes(ToggleTarget(on, paused), ppending)
       THEN batchingExporter(ppending) /\ UNCHANGED bsubs
       ELSE UNCHANGED batchingVars
    /\ UNCHANGED <<spanVars, bufferedVars, shaperVars, tracerVars, stackVars>>

\* processBatch; a batch that is not empty goes to obj.exporter of the
\* buffered stage
PipelineBatch(op) ==
    /\ processBatch(op)
    /\ IF Len(NextBatch) > 0
       THEN bufferedExporter(NextBatch) /\ UNCHANGED fsubs
       ELSE UNCHANGED bufferedVars
    /\ UNCHANGED <<spanVars, pausableVars, shaperVars, tracerVars, stackVars>>

PipelineTimerFire ==
    /\ btimer.armed
    /\ PipelineBatch("timer")

PipelineTeardown == PipelineBatch("teardown")

\* obj.send() of the buffered stage, called once
PipelineSend ==
    /\ fsubs = 0
    /\ BufferedSend

\* The numbers of events of one call of the pipeline's exporter
PipelineCallSizes == {0, 1, 2}

NextPipeline ==
    \/ \E n \in PipelineCallSizes : PipelineSubmit(n)
    \/ PipelineToggle("undefined")
    \/ PipelineTimerFire
    \/ PipelineTeardown
    \/ PipelineSend
    \/ InnerResolve

SpecPipeline == InitPipeline /\ [][NextPipeline]_vars

----------------------------------------------------------------------------
(* collect, the payload shaper of the faro exporter *)

\* InstrumentationScope: a string, or an object with a name and maybe a
\* version (version "" when it has none)
BareScope(str) == [bare |-> TRUE, str |-> str, name |-> "", version |-> ""]
RecordScope(name, version) == [bare |-> FALSE, str |-> "", name |-> name, version |-> version]

\* item.span, item.log and item.metric; has is FALSE when the item has none.
\* A span is known by its number.  Of a log the model keeps the attributes
\* (pairs of a key and a string value), severityNumber, timeUnixNano (hasTime
\* is FALSE when it is undefined), body.stringValue, traceId and spanId.
\* Of a metric it keeps whether it has data.gauge, its name, and
\* data.gauge.dataPoints[0]?.value with asDouble and asInt.
NoSpan == [has |-> FALSE, id |-> 0]
TheSpan(n) == [has |-> TRUE, id |-> n]

NoLog ==
    [has |-> FALSE, attributes |-> <<>>, hasSeverity |-> FALSE, severityNumber |-> 0,
     hasTime |-> FALSE, timeUnixNano |-> 0, body |-> "", traceId |-> UNDEF, spanId |-> UNDEF]

\* A log with the attribute "kind", or without attributes when kind is "none"
Log(kind, hasSeverity, severityNumber, body) ==
    [NoLog EXCEPT !.has = TRUE,
                  !.attributes = IF kind = "none" THEN <<>> ELSE << <<"kind", kind>> >>,
                  !.hasSeverity = hasSeverity, !.severityNumber = severityNumber,
                  !.hasTime = TRUE, !.body = body]

\* context[key], context being Object.fromEntries of the attributes: the
\* value of the last attribute with the key, "none" for undefined
Context(log, key) ==
    LET at == {k \in DOMAIN log.attributes : log.attributes[k][1] = key}
    IN IF at = {} THEN "none"
       ELSE log.attributes[CHOOSE k \in at : \A j \in at : j <= k][2]

NoMetric ==
    [has |-> FALSE, gauge |-> FALSE, name |-> "", hasValue |-> FALSE,
     hasDouble |-> FALSE, asDouble |-> 0, hasInt |-> FALSE, asInt |-> 0]
Gauge(name, hasValue, hasDouble, asDouble, hasInt, asInt) ==
    [has |-> TRUE, gauge |-> TRUE, name |-> name, hasValue |-> hasValue,
     hasDouble |-> hasDouble, asDouble |-> asDouble, hasInt |-> hasInt, asInt |-> asInt]
SumMetric(name) == [NoMetric EXCEPT !.has = TRUE, !.name = name]

\* ExportItem
Item(scope, span, log, metric) == [scope |-> scope, span |-> span, log |-> log, metric |-> metric]

\* makeScope
makeScope(scope) ==
    IF scope.bare
    THEN [name |-> scope.str, version |-> "1.0.0"]
    ELSE [name |-> scope.name,
          version |-> IF scope.version = "" THEN "1.0.0" ELSE scope.version]

getFaroLogLevel_Inclusive(severity) ==
    IF severity <= 5 THEN "trace"
    ELSE IF severity <= 9 THEN "debug"
    ELSE IF severity <= 13 THEN "info"
    ELSE IF severity <= 17 THEN "warning"
    ELSE IF severity <= 21 THEN "error"
    ELSE "fatal"

\* getFaroLogLevel
getFaroLogLevel(severity) ==
    IF severity < 5 THEN "trace"
    ELSE IF severity < 9 THEN "debug"
    ELSE IF severity < 13 THEN "info"
    ELSE IF severity < 17 THEN "warning"
    ELSE IF severity < 21 THEN "error"
    ELSE "fatal"

\* What collect returns for the empty batch
EmptyPayload ==
    [done |-> TRUE, raised |-> FALSE, traces |-> <<>>, logs |-> <<>>,
     measurements |-> <<>>, exceptions |-> <<>>, events |-> <<>>]

SpanGroupAt_None(traces, name) == 0

\* tracesBatch[name]: the place of the group in the order of insertion, 0
\* when there is none
SpanGroupAt(traces, name) ==
    IF \E k \in DOMAIN traces : traces[k].scope.name = name
    THEN CHOOSE k \in DOMAIN traces : traces[k].scope.name = name
    ELSE 0

\* measurementsBatch[name], in the same way
MeasurementAt(measurements, name) ==
    IF \E k \in DOMAIN measurements : measurements[k].type = name
    THEN CHOOSE k \in DOMAIN measurements : measurements[k].type = name
    ELSE 0

\* The span rule: the group of the scope, made when it is not there, gets
\* the span
collectSpan(acc, item) ==
    LET k == SpanGroupAt(acc.traces, makeScope(item.scope).name)
        groups == IF k = 0
                  THEN Append(acc.traces, [scope |-> makeScope(item.scope), spans |-> <<>>])
                  ELSE acc.traces
        at == IF k = 0 THEN Len(groups) ELSE k
    IN [acc EXCEPT !.traces = [groups EXCEPT ![at].spans = Append(@, item.span.id)]]

\* The log rule: an exception, an event or a plain log message.
\* BigInt(item.log.timeUnixNano) raises a TypeError for undefined.
collectLog(acc, item) ==
    IF ~item.log.hasTime
    THEN [acc EXCEPT !.raised = TRUE]
    ELSE IF Context(item.log, "kind") = "exception"
    THEN [acc EXCEPT !.exceptions =
             Append(@, [type |-> Context(item.log, "type"), value |-> item.log.body])]
    ELSE IF Context(item.log, "kind") = "event"
    THEN [acc EXCEPT !.events =
             Append(@, [name |-> item.log.body, domain |-> makeScope(item.scope).name])]
    ELSE [acc EXCEPT !.logs =
             Append(@, [message |-> item.log.body,
                        level |-> getFaroLogLevel(IF item.log.hasSeverity
                                                  THEN item.log.severityNumber ELSE 0)])]

GaugeValue_IntFirst(m) == IF m.hasInt THEN m.asInt ELSE IF m.hasDouble THEN m.asDouble ELSE NaN

\* Number(value.asDouble ?? value.asInt)
GaugeValue(m) == IF m.hasDouble THEN m.asDouble ELSE IF m.hasInt THEN m.asInt ELSE NaN

\* scope.values[key] = value
SetValue(values, key, value) ==
    [n \in DOMAIN values \cup {key} |-> IF n = key THEN value ELSE values[n]]

\* The metric rule: the measurement of the scope, made when it is not there,
\* gets the value of the first data point under the name of the metric
collectGauge(acc, item) ==
    LET k == MeasurementAt(acc.measurements, makeScope(item.scope).name)
        groups == IF k = 0
                  THEN Append(acc.measurements,
                              [type |-> makeScope(item.scope).name, values |-> <<>>])
                  ELSE acc.measurements
        at == IF k = 0 THEN Len(groups) ELSE k
    IN IF item.metric.hasValue
       THEN [acc EXCEPT !.measurements =
                [groups EXCEPT ![at].values =
                    SetValue(@, item.metric.name, GaugeValue(item.metric))]]
       ELSE [acc EXCEPT !.measurements = groups]

\* The body of the loop of collect for one item: continue after a span,
\* after an exception and after an event; a plain log message goes on to
\* the test of the metric
collectItem(acc, item) ==
    IF item.span.has THEN collectSpan(acc, item)
    ELSE LET logged == IF item.log.has THEN collectLog(acc, item) ELSE acc
         IN IF logged.raised THEN logged
            ELSE IF item.log.has /\ Context(item.log, "kind") \in {"exception", "event"} THEN logged
            ELSE IF item.metric.has /\ item.metric.gauge THEN collectGauge(logged, item)
            ELSE logged

RECURSIVE collectFrom(_, _)
collectFrom(acc, items) ==
    IF items = <<>> \/ acc.raised THEN acc ELSE collectFrom(collectItem(acc, Head(items)), Tail(items))

\* collect(batch)
collect(items) == collectFrom(EmptyPayload, items)

\* The items that batches are made of
ShaperItems ==
    { Item(RecordScope("a", "2"), TheSpan(1), NoLog, NoMetric),
      Item(BareScope("a"), TheSpan(2), NoLog, NoMetric),
      Item(RecordScope("b", ""), TheSpan(3), NoLog, NoMetric),
      Item(RecordScope("b", ""), TheSpan(4), Log("none", TRUE, 9, "hi"),
           Gauge("m", TRUE, TRUE, 5, FALSE, 0)),
      Item(RecordScope("a", ""), NoSpan, Log("none", TRUE, 9, "hi"), NoMetric),
      Item(BareScope("b"), NoSpan, Log("none", FALSE, 0, "lo"), NoMetric),
      Item(BareScope("a"), NoSpan, Log("exception", TRUE, 20, "ex"),
           Gauge("m", TRUE, TRUE, 6, FALSE, 0)),
      Item(RecordScope("a", ""), NoSpan, Log("event", TRUE, 9, "ev"), NoMetric),
      Item(RecordScope("b", ""), NoSpan, Log("none", TRUE, 17, "er"),
           Gauge("m", TRUE, TRUE, 7, FALSE, 0)),
      Item(RecordScope("a", ""), NoSpan, NoLog, Gauge("m", TRUE, TRUE, 1, FALSE, 0)),
      Item(BareScope("a"), NoSpan, NoLog, Gauge("m", TRUE, FALSE, 0, TRUE, 2)),
      Item(RecordScope("a", ""), NoSpan, NoLog, Gauge("m", TRUE, TRUE, 3, TRUE, 4)),
      Item(RecordScope("a", ""), NoSpan, NoLog, Gauge("n", TRUE, TRUE, 2, FALSE, 0)),
      Item(RecordScope("b", ""), NoSpan, NoLog, Gauge("n", FALSE, FALSE, 0, FALSE, 0)),
      Item(RecordScope("b", ""), NoSpan, NoLog, SumMetric("m")) }

\* A plain log message of every severity
SeverityItems ==
    { Item(BareScope("a"), NoSpan, Log("none", TRUE, severity, "hi"), NoMetric) :
        severity \in 0..24 }

\* The batches given to collect
ShaperBatches ==
    UNION {[1..n -> ShaperItems] : n \in 0..MaxBatchLen}
    \cup {<<item>> : item \in SeverityItems}

InitShaper ==
    /\ batch \in ShaperBatches
    /\ shaped = NotShaped
    /\ faro = NoExport
    /\ TracerIdle
    /\ SpanIdle
    /\ PausableIdle
    /\ BatchingIdle
    /\ BufferedIdle
    /\ StackIdle

\* const [traces, logs, measurements, exceptions, events] = collect(batch)
Collect ==
    /\ ~shaped.done
    /\ shaped' = collect(batch)
    /\ UNCHANGED <<batch, faro, spanVars, pausableVars, batchingVars, bufferedVars, tracerVars, stackVars>>

NextShaper == Collect

SpecShaper == InitShaper /\ [][NextShaper]_vars

----------------------------------------------------------------------------
(* faroExporter: the payload and its delivery *)

\* const resource; JSON.stringify leaves out a stringValue that is undefined
Resource(meta) ==
    [attributes |-> << [key |-> "service.name",
                        value |-> IF meta.hasName THEN [stringValue |-> meta.name]
                                  ELSE EmptyObject] >>]

PayloadKeys_All(c) == {"meta", "events", "exceptions", "measurements", "logs", "traces"}

\* The keys that result is given
PayloadKeys(c) ==
    {"meta"} \cup {k \in {"events", "exceptions", "measurements", "logs", "traces"} : c[k] # <<>>}

\* JSON.stringify(result)
Payload(meta, c) ==
    [k \in PayloadKeys(c) |->
        IF k = "meta" THEN meta
        ELSE IF k = "traces"
        THEN [resourceSpans |-> << [scopeSpans |-> c.traces, resource |-> Resource(meta)] >>]
        ELSE c[k]]

\* typeof navigator !== 'undefined' && navigator.sendBeacon
BeaconOffered(nav) == nav \in {"accepts", "refuses"}

BeaconDelivers_Never(nav) == FALSE

\* navigator.sendBeacon(options.destination, body)
BeaconDelivers(nav) == nav = "accepts"

\* faroExporter(...batch) as far as its return or its await.  meta.app.name
\* raises a TypeError when meta.app is missing, and so does collect for a
\* log without timeUnixNano: the promise of the async function rejects.
faroExporter(items, meta, nav) ==
    LET c == collect(items)
        call == [NoExport EXCEPT !.meta = meta, !.nav = nav]
        ready == [call EXCEPT !.hasBody = TRUE, !.body = Payload(meta, c)]
        tried == IF BeaconOffered(nav) THEN [ready EXCEPT !.beacons = 1] ELSE ready
    IN IF ~meta.hasApp \/ c.raised
       THEN [call EXCEPT !.pc = "done", !.promise = "rejected"]
       ELSE IF BeaconOffered(nav) /\ BeaconDelivers(nav)
       THEN [tried EXCEPT !.pc = "done", !.promise = "resolved"]
       ELSE [tried EXCEPT !.pc = "posting", !.posts = 1]

\* What the rest of the model leaves out of a log item: one without timeUnixNano
Untimed(log) == [log EXCEPT !.hasTime = FALSE]

\* The items that the batches given to faroExporter are made of
FaroItems ==
    { Item(RecordScope("a", "2"), TheSpan(1), NoLog, NoMetric),
      Item(BareScope("b"), TheSpan(2), NoLog, NoMetric),
      Item(BareScope("a"), NoSpan, Log("none", TRUE, 9, "hi"), NoMetric),
      Item(BareScope("a"), NoSpan, Log("exception", TRUE, 20, "ex"), NoMetric),
      Item(BareScope("a"), NoSpan, Log("event", TRUE, 9, "ev"), NoMetric),
      Item(BareScope("a"), NoSpan, Untimed(Log("none", TRUE, 9, "late")), NoMetric),
      Item(BareScope("a"), NoSpan, NoLog, Gauge("m", TRUE, TRUE, 1, FALSE, 0)),
      Item(BareScope("b"), NoSpan, NoLog, Gauge("n", FALSE, FALSE, 0, FALSE, 0)) }

FaroBatches == UNION {[1..n -> FaroItems] : n \in 0..MaxBatchLen}

Metas == {Meta(FALSE, FALSE, ""), Meta(TRUE, FALSE, ""), Meta(TRUE, TRUE, "shop")}
Navigators == {"none", "nobeacon", "accepts", "refuses"}

InitFaro ==
    /\ batch \in FaroBatches
    /\ shaped = NotShaped
    /\ faro = NoExport
    /\ SpanIdle
    /\ PausableIdle
    /\ BatchingIdle
    /\ BufferedIdle
    /\ TracerIdle
    /\ StackIdle

\* The exporter is called with the batch
Export(meta, nav) ==
    /\ faro.pc = "idle"
    /\ faro' = faroExporter(batch, meta, nav)
    /\ shaped' = IF meta.hasApp THEN collect(batch) ELSE shaped
    /\ UNCHANGED <<batch, spanVars, pausableVars, batchingVars, bufferedVars, tracerVars, stackVars>>

\* The promise of fetch settles: the first handler of then when it resolves,
\* the second, which calls console.error, when it rejects with an Error
PostSettle(ok) ==
    /\ faro.pc = "posting"
    /\ faro' = [faro EXCEPT !.pc = "done", !.promise = "resolved",
                            !.postFailed = ~ok,
                            !.logged = IF ok THEN @ ELSE @ + 1]
    /\ UNCHANGED <<batch, shaped, spanVars, pausableVars, batchingVars, bufferedVars, tracerVars, stackVars>>

NextFaro ==
    \/ \E meta \in Metas, nav \in Navigators : Export(meta, nav)
    \/ \E ok \in BOOLEAN : PostSettle(ok)

SpecFaro == InitFaro /\ [][NextFaro]_vars

----------------------------------------------------------------------------
(* log, error, measurement and span; tracer, dummyTracer and the helpers   *)
(* of a running span                                                       *)

\* log(exporter, scope, severity, message, parent, log): the item that the
\* exporter is called with.  record is the Partial<LogRecord>, a function
\* from some field names to values; undefined is the empty function.
log(scope, severity, message, P, record, t) ==
    LET parentObj == makeParentObj(P)
        rec == Overlay([severityNumber |-> severity, timeUnixNano |-> t, body |-> message,
                        traceId |-> parentObj.traceId, spanId |-> parentObj.spanId,
                        attributes |-> <<>>],
                       record)
    IN Item(scope, NoSpan,
            [NoLog EXCEPT !.has = TRUE, !.attributes = rec.attributes,
                          !.hasSeverity = TRUE, !.severityNumber = rec.severityNumber,
                          !.hasTime = TRUE, !.timeUnixNano = rec.timeUnixNano,
                          !.body = rec.body, !.traceId = rec.traceId, !.spanId = rec.spanId],
            NoMetric)

\* error(exporter, scope, parent, error)
error(scope, P, e, t) == log(scope, 20, ErrorStack(e), P, [attributes |-> errorAttributes(e)], t)

\* measurement(exporter, scope, name, unit, value, context)
measurement(scope, name, value) ==
    Item(scope, NoSpan, NoLog, Gauge(name, TRUE, TRUE, value, FALSE, 0))

\* span(exporter, scope, parent, details): the item; the span made is kept
\* beside it
SpanItem(scope, n) == Item(scope, TheSpan(n), NoLog, NoMetric)

NoItem == Item(BareScope(""), NoSpan, NoLog, NoMetric)
NoInput ==
    [severity |-> 0, message |-> "", record |-> NoDetails, e |-> "none", name |-> "",
     value |-> 0, details |-> NoDetails, of |-> 0]

\* A call that completes without calling an exporter
Skipped(by, op, input) ==
    [by |-> by, op |-> op, input |-> input, sent |-> FALSE, item |-> NoItem,
     span |-> NoDetails, outcome |-> "resolved"]

\* await exporter(item).  Calling an exporter that is null raises a
\* TypeError, so the promise of the async function rejects.
Exported(exp, by, op, input, item, made1) ==
    IF exp
    THEN [by |-> by, op |-> op, input |-> input, sent |-> TRUE, item |-> item,
          span |-> made1, outcome |-> "resolved"]
    ELSE [Skipped(by, op, input) EXCEPT !.outcome = "rejected"]

\* What makeParentObj sees when a Partial<LogRecord> stands where the parent
\* is expected: an object, with the record's traceId and spanId if it has any
RecordAsParent(record) ==
    ObjectParent(IF "traceId" \in DOMAIN record THEN record.traceId ELSE UNDEF,
                 IF "spanId" \in DOMAIN record THEN record.spanId ELSE UNDEF,
                 "undefined")

TracerScope == BareScope("a")
TracerParents ==
    { ObjectParent(ExternalTraceId, ExternalSpanId, "true"),
      StringParent(<<"00", DASH, "x1", DASH, "x2", DASH, "01">>),
      StringParent(<<"00", DASH, "x1", DASH, "x2", DASH, "00">>) }
Tracers ==
    {[kind |-> "tracer", parent |-> P] : P \in TracerParents \cup {AbsentParent}}
    \cup {[kind |-> "dummy", parent |-> AbsentParent]}
LogRecords ==
    { NoDetails,
      [traceId |-> <<"r1">>, spanId |-> <<"r2">>],
      [body |-> "custom", attributes |-> << <<"kind", "event">> >>] }

InitTracer ==
    /\ tr \in Tracers
    /\ tcalls = <<>>
    /\ uopts = NoUnhandledOptions
    /\ uon = NoWindow
    /\ SpanIdle
    /\ PausableIdle
    /\ BatchingIdle
    /\ BufferedIdle
    /\ ShaperIdle
    /\ StackIdle

\* Tracer.log.  tracer() calls log(exporter, scope, severity, message, record):
\* the record takes the place of the parent, and log gets no record.
TracerLog(severity, message, record) ==
    /\ tr.kind # "none"
    /\ Len(tcalls) < MaxTracerCalls
    /\ LET input == [NoInput EXCEPT !.severity = severity, !.message = message, !.record = record]
       IN tcalls' = Append(tcalls,
             IF tr.kind = "dummy" THEN Skipped("dummy", "log", input)
             ELSE Exported(TRUE, "tracer", "log", input,
                           log(TracerScope, severity, message, RecordAsParent(record), NoDetails, now),
                           NoDetails))
    /\ UNCHANGED <<tr, uopts, uon, spanVars, pausableVars, batchingVars, bufferedVars, shaperVars, stackVars>>

\* Tracer.error
TracerError(e) ==
    /\ tr.kind # "none"
    /\ Len(tcalls) < MaxTracerCalls
    /\ LET input == [NoInput EXCEPT !.e = e]
       IN tcalls' = Append(tcalls,
             IF tr.kind = "dummy" THEN Skipped("dummy", "error", input)
             ELSE Exported(TRUE, "tracer", "error", input,
                           error(TracerScope, tr.parent, e, now), NoDetails))
    /\ UNCHANGED <<tr, uopts, uon, spanVars, pausableVars, batchingVars, bufferedVars, shaperVars, stackVars>>

\* Tracer.measurement
TracerMeasurement(name, value) ==
    /\ tr.kind # "none"
    /\ Len(tcalls) < MaxTracerCalls
    /\ LET input == [NoInput EXCEPT !.name = name, !.value = value]
       IN tcalls' = Append(tcalls,
             IF tr.kind = "dummy" THEN Skipped("dummy", "measurement", input)
             ELSE Exported(TRUE, "tracer", "measurement", input,
                           measurement(TracerScope, name, value), NoDetails))
    /\ UNCHANGED <<tr, uopts, uon, spanVars, pausableVars, batchingVars, bufferedVars, shaperVars, stackVars>>

\* Tracer.span
TracerSpan(details) ==
    /\ tr.kind # "none"
    /\ Len(tcalls) < MaxTracerCalls
    /\ LET input == [NoInput EXCEPT !.details = details]
       IN IF tr.kind = "dummy"
          THEN /\ tcalls' = Append(tcalls, Skipped("dummy", "span", input))
               /\ UNCHANGED nextId
          ELSE /\ tcalls' = Append(tcalls,
                     Exported(TRUE, "tracer", "span", input, SpanItem(TracerScope, nextId),
                              makeSpan(tr.parent, details, nextId, now)))
               /\ nextId' = nextId + IdsDrawn(tr.parent)
    /\ UNCHANGED <<tr, uopts, uon, spans, exported, bodyCalls, made>>
    /\ UNCHANGED <<pausableVars, batchingVars, bufferedVars, shaperVars, stackVars>>

\* Tracer.run: runSpan(exporter, scope, parent, fn), or runSpan(null, scope,
\* null, fn) for dummyTracer
TracerRun ==
    /\ tr.kind # "none"
    /\ StartRoot(tr.kind = "tracer", tr.parent)

\* newSpan.log, newSpan.error, newSpan.measurement and newSpan.span called by
\* the body of span i, with the exporter of the run and newSpan as the parent
HelperLog(i, severity, message, record) ==
    /\ Running(i)
    /\ Len(tcalls) < MaxTracerCalls
    /\ tcalls' = Append(tcalls,
          Exported(spans[i].exp, "span", "log",
                   [NoInput EXCEPT !.severity = severity, !.message = message,
                                   !.record = record, !.of = i],
                   log(TracerScope, severity, message, AsParent(spans[i]), record, now),
                   NoDetails))
    /\ UNCHANGED <<tr, uopts, uon, spanVars, pausableVars, batchingVars, bufferedVars, shaperVars, stackVars>>

HelperError(i, e) ==
    /\ Running(i)
    /\ Len(tcalls) < MaxTracerCalls
    /\ tcalls' = Append(tcalls,
          Exported(spans[i].exp, "span", "error", [NoInput EXCEPT !.e = e, !.of = i],
                   error(TracerScope, AsParent(spans[i]), e, now), NoDetails))
    /\ UNCHANGED <<tr, uopts, uon, spanVars, pausableVars, batchingVars, bufferedVars, shaperVars, stackVars>>

HelperMeasurement(i, name, value) ==
    /\ Running(i)
    /\ Len(tcalls) < MaxTracerCalls
    /\ tcalls' = Append(tcalls,
          Exported(spans[i].exp, "span", "measurement",
                   [NoInput EXCEPT !.name = name, !.value = value, !.of = i],
                   measurement(TracerScope, name, value), NoDetails))
    /\ UNCHANGED <<tr, uopts, uon, spanVars, pausableVars, batchingVars, bufferedVars, shaperVars, stackVars>>

HelperSpan(i, details) ==
    /\ Running(i)
    /\ Len(tcalls) < MaxTracerCalls
    /\ tcalls' = Append(tcalls,
          Exported(spans[i].exp, "span", "span", [NoInput EXCEPT !.details = details, !.of = i],
                   SpanItem(TracerScope, nextId),
                   makeSpan(AsParent(spans[i]), details, nextId, now)))
    /\ nextId' = nextId + IdsDrawn(AsParent(spans[i]))
    /\ UNCHANGED <<tr, uopts, uon, spans, exported, bodyCalls, made>>
    /\ UNCHANGED <<pausableVars, batchingVars, bufferedVars, shaperVars, stackVars>>

\* A tracer, or the no-op tracer, and what an application does with it: the
\* four recording calls, and one run whose body uses the helpers of its span
NextTracer ==
    \/ \E record \in LogRecords : TracerLog(9, "hi", record)
    \/ \E e \in ErrorObjects : TracerError(e)
    \/ TracerMeasurement("m", 5)
    \/ \E d \in HelperDetails : TracerSpan(d)
    \/ TracerRun
    \/ \E i \in 1..Len(spans), record \in LogRecords : HelperLog(i, 9, "hi", record)
    \/ \E i \in 1..Len(spans), e \in ErrorObjects : HelperError(i, e)
    \/ \E i \in 1..Len(spans) : HelperMeasurement(i, "m", 5)
    \/ \E i \in 1..Len(spans), d \in HelperDetails : HelperSpan(i, d)
    \/ \E i \in 1..Len(spans) : BodyReturn(i)
    \/ \E i \in 1..Len(spans) : BodyThrow(i, "E1")
    \/ \E i \in 1..Len(spans) : ExportSettle(i, TRUE)

SpecTracer == InitTracer /\ [][NextTracer]_vars

----------------------------------------------------------------------------
(* instrumentUnhandledErrors *)

UnhandledScope == RecordScope("koll/unhandled-errors", "0.0.1")

\* The options: none, or an ignore function, known by the errors for which
\* it returns true
UnhandledOptions ==
    {NoUnhandledOptions} \cup
    {[hasIgnore |-> TRUE, ignored |-> errs] : errs \in SUBSET ErrorObjects}

\* options?.ignore?.(error)
Ignore(o, e) ==
    IF ~o.hasIgnore THEN "undefined" ELSE IF e \in o.ignored THEN "true" ELSE "false"

\* The test of handleError: options?.ignore?.(error) !== false
Sends(o, e) == Ignore(o, e) # "false"

\* handleError(error) of instrumentation k, called by the handler named by:
\* the call of sendError, or none
handleError(k, by, e) ==
    IF Sends(uopts, e)
    THEN Exported(TRUE, by, "error", [NoInput EXCEPT !.e = e, !.of = k],
                  error(UnhandledScope, AbsentParent, e, now), NoDetails)
    ELSE Skipped(by, "error", [NoInput EXCEPT !.e = e, !.of = k])

\* instrumentUnhandledErrors(exporter, options): original = window.onerror,
\* then the listener is added and window.onerror is set
instrumentUnhandledErrors(w) ==
    LET k == Len(w.insts) + 1
    IN [w EXCEPT !.insts = Append(@, [original |-> w.onerror, stopped |-> FALSE, late |-> FALSE]),
                 !.rejects = Append(@, k),
                 !.onerror = k]

\* if (window.onerror === onError)
RestoresOnStop(w, k) == w.onerror = k

\* The function that instrumentUnhandledErrors returned to instrumentation k
stop(w, k) ==
    [w EXCEPT !.onerror = IF RestoresOnStop(w, k) THEN w.insts[k].original ELSE @,
              !.rejects = SelectSeq(@, LAMBDA j : j # k),
              !.insts[k].stopped = TRUE]

\* The handlers that run when handler h is called with an error: onError of
\* an instrumentation calls its original in its finally block
RECURSIVE Chain(_, _)
Chain(w, h) == IF h < 1 THEN <<>> ELSE <<h>> \o Chain(w, w.insts[h].original)

\* Whether the chain from handler h ends at the handler of the page
RECURSIVE ReachesPage(_, _)
ReachesPage(w, h) == IF h < 1 THEN h = 0 ELSE ReachesPage(w, w.insts[h].original)

\* The calls of handleError that the instrumentations ks make, by the handler named by
Handled(ks, by, e) == [n \in 1..Len(ks) |-> handleError(ks[n], by, e)]

\* The window after the instrumentations ks ran handleError(e): one that was
\* stopped and sent the error is marked late
AfterHandled(w, ks, e) ==
    [w EXCEPT !.insts = [k \in 1..Len(w.insts) |->
        [w.insts[k] EXCEPT !.late = @ \/ (w.insts[k].stopped /\ Sends(uopts, e)
                                            /\ \E n \in 1..Len(ks) : ks[n] = k)]]]

InitUnhandled ==
    /\ tr = NoTracer
    /\ tcalls = <<>>
    /\ uopts \in UnhandledOptions
    /\ uon = instrumentUnhandledErrors(NoWindow)
    /\ SpanIdle
    /\ PausableIdle
    /\ BatchingIdle
    /\ BufferedIdle
    /\ ShaperIdle
    /\ StackIdle

\* The window reports an error with an error object (without one onError
\* returns before handleError): window.onerror is called, if there is one
OnError(e) ==
    /\ Len(tcalls) < MaxTracerCalls
    /\ LET ks == Chain(uon, uon.onerror)
       IN /\ tcalls' = tcalls \o Handled(ks, "onError", e)
          /\ uon' = [AfterHandled(uon, ks, e) EXCEPT
                        !.pageRan = @ \/ ReachesPage(uon, uon.onerror)]
    /\ UNCHANGED <<tr, uopts, spanVars, pausableVars, batchingVars, bufferedVars, shaperVars, stackVars>>

\* An unhandledrejection event whose reason is an Error: the listeners run
OnReject(e) ==
    /\ Len(tcalls) < MaxTracerCalls
    /\ tcalls' = tcalls \o Handled(uon.rejects, "onReject", e)
    /\ uon' = AfterHandled(uon, uon.rejects, e)
    /\ UNCHANGED <<tr, uopts, spanVars, pausableVars, batchingVars, bufferedVars, shaperVars, stackVars>>

\* The function that instrumentUnhandledErrors returned to instrumentation k
\* is called
Stop(k) ==
    /\ k \in 1..Len(uon.insts)
    /\ ~uon.insts[k].stopped
    /\ uon' = stop(uon, k)
    /\ UNCHANGED <<tr, tcalls, uopts, spanVars, pausableVars, batchingVars, bufferedVars, shaperVars, stackVars>>

NextUnhandled ==
    \/ \E e \in ErrorObjects : OnError(e)
    \/ \E e \in ErrorObjects : OnReject(e)
    \/ Stop(1)

SpecUnhandled == InitUnhandled /\ [][NextUnhandled]_vars

\* A page that has an error handler of its own, or none, and installs
\* instrumentations and stops them in any order
InitInstruments ==
    /\ tr = NoTracer
    /\ tcalls = <<>>
    /\ uopts = NoUnhandledOptions
    /\ uon \in {Window(-1), Window(0)}
    /\ SpanIdle
    /\ PausableIdle
    /\ BatchingIdle
    /\ BufferedIdle
    /\ ShaperIdle
    /\ StackIdle

\* instrumentUnhandledErrors is called
Install ==
    /\ Len(uon.insts) < MaxInstalls
    /\ uon' = instrumentUnhandledErrors(uon)
    /\ UNCHANGED <<tr, tcalls, uopts, spanVars, pausableVars, batchingVars, bufferedVars, shaperVars, stackVars>>

NextInstruments ==
    \/ Install
    \/ \E k \in 1..Len(uon.insts) : Stop(k)
    \/ OnError("E1")
    \/ OnReject("E2")

SpecInstruments == InitInstruments /\ [][NextInstruments]_vars

----------------------------------------------------------------------------
(* parseStackTrace *)

\* A line of a stack is the sequence of its pieces: a run of white space (SP),
\* a punctuation character, a run of digits, or a run of other characters.
\* The lines are the pieces of the stack between its line breaks.
SP == " "
Digits == {"5", "10", "80"}

\* Number(digits)
NumberOf(d) == IF d = "5" THEN 5 ELSE IF d = "10" THEN 10 ELSE 80

\* An ErrorFrame as parseStackTrace builds it; a key that is absent or
\* undefined has its has-flag FALSE
Frame(function, hasFile, fileName, hasLineno, lineno, hasColno, colno) ==
    [function |-> function, hasFile |-> hasFile, fileName |-> fileName,
     hasLineno |-> hasLineno, lineno |-> lineno, hasColno |-> hasColno, colno |-> colno]

\* The index of the first piece of l that is in the set S, 0 when there is none
FirstIn(l, S) ==
    IF \E i \in 1..Len(l) : l[i] \in S
    THEN CHOOSE i \in 1..Len(l) : l[i] \in S /\ \A j \in 1..(i - 1) : l[j] \notin S
    ELSE 0

\* replace(/^\s+/, '')
StripSpace(l) == IF Len(l) > 0 /\ l[1] = SP THEN SubSeq(l, 2, Len(l)) ELSE l

\* /^\s*at .*(\S+:\d+|\(native\))/ on one line
IsV8Line(l) ==
    LET b == StripSpace(l)
    IN /\ Len(b) >= 2 /\ b[1] = "at" /\ b[2] = SP
       /\ \/ \E i \in 3..(Len(b) - 2) : b[i] # SP /\ b[i + 1] = ":" /\ b[i + 2] \in Digits
          \/ \E i \in 3..(Len(b) - 2) : b[i] = "(" /\ b[i + 1] = "native" /\ b[i + 2] = ")"

\* replace(/^.*?\s+/, ''): what follows the first run of white space
AfterFirstSpace(l) ==
    IF FirstIn(l, {SP}) = 0 THEN l ELSE SubSeq(l, FirstIn(l, {SP}) + 1, Len(l))

\* sanitizedLine of a line that has no eval wrapper
SanitizedLine(l) == AfterFirstSpace(StripSpace(l))

\* replace(/\s.+/, ''): what precedes the first white space that something follows
BeforeFirstSpace(l) ==
    IF FirstIn(l, {SP}) = 0 \/ FirstIn(l, {SP}) = Len(l) THEN l
    ELSE SubSeq(l, 1, FirstIn(l, {SP}) - 1)

Anonymous == <<"<anonymous>">>

\* sanitizedLine.endsWith(')') ? sanitizedLine.replace(/\s.+/, '') : undefined,
\* then ?? '<anonymous>'
V8FunctionName(sl) ==
    IF Len(sl) > 0 /\ sl[Len(sl)] = ")" THEN BeforeFirstSpace(sl) ELSE Anonymous

\* (?::(\d+):(\d+))?(?:\)|$) matches after piece e, with the numbers
V8TailNumbered(sl, e) ==
    /\ Len(sl) >= e + 4
    /\ sl[e + 1] = ":" /\ sl[e + 2] \in Digits /\ sl[e + 3] = ":" /\ sl[e + 4] \in Digits
    /\ (Len(sl) = e + 4 \/ sl[e + 5] = ")")

\* (?::(\d+):(\d+))?(?:\)|$) matches after piece e, without the numbers
V8TailBare(sl, e) == Len(sl) = e \/ sl[e + 1] = ")"

\* (?:^|\b)(https?:.+?) can start at piece i and end at piece e
V8LocationAt(sl, i, e) ==
    /\ sl[i] \in {"http", "https"} /\ i + 1 <= Len(sl) /\ sl[i + 1] = ":"
    /\ (i = 1 \/ sl[i - 1] \in {SP, "(", ")", ":", "@"})
    /\ e >= i + 2 /\ e <= Len(sl)
    /\ (V8TailNumbered(sl, e) \/ V8TailBare(sl, e))

\* sanitizedLine.match(...): the leftmost start and the shortest file for it,
\* or no match
V8LocationParts(sl) ==
    LET starts == {i \in 1..Len(sl) : \E e \in 1..Len(sl) : V8LocationAt(sl, i, e)}
    IN IF starts = {} THEN [matched |-> FALSE, file |-> <<>>, hasNumbers |-> FALSE, n2 |-> "5", n3 |-> "5"]
       ELSE LET i == CHOOSE x \in starts : \A y \in starts : x <= y
                e == CHOOSE x \in 1..Len(sl) :
                        V8LocationAt(sl, i, x) /\ \A y \in 1..(x - 1) : ~V8LocationAt(sl, i, y)
            IN [matched |-> TRUE, file |-> SubSeq(sl, i, e),
                hasNumbers |-> V8TailNumbered(sl, e),
                n2 |-> IF V8TailNumbered(sl, e) THEN sl[e + 2] ELSE "5",
                n3 |-> IF V8TailNumbered(sl, e) THEN sl[e + 4] ELSE "5"]

\* The frame of one line in the V8 branch.  Without a match the parts are
\* [null, sanitizedLine, -1, -1]; group 2 goes to colno and group 3 to lineno
V8Frame(l) ==
    LET sl == SanitizedLine(l)
        parts == V8LocationParts(sl)
    IN IF ~parts.matched
       THEN Frame(V8FunctionName(sl), TRUE, sl, TRUE, -1, TRUE, -1)
       ELSE Frame(V8FunctionName(sl), TRUE, parts.file,
                  parts.hasNumbers, IF parts.hasNumbers THEN NumberOf(parts.n3) ELSE 0,
                  parts.hasNumbers, IF parts.hasNumbers THEN NumberOf(parts.n2) ELSE 0)

\* /^([a-zA-Z]+@)?(\[native code\])?$/ on one line
IsNativeLine(l) ==
    \/ l = <<>>
    \/ Len(l) = 2 /\ l[2] = "@" /\ l[1] \notin {SP, "(", ")", ":", "@"} \cup Digits
    \/ l = <<"[native code]">>
    \/ Len(l) = 3 /\ l[2] = "@" /\ l[3] = "[native code]"

\* matches[1] of /((.*".+"[^@]*)?[^@]*)(?:@)/ for a line without quotes, then
\* ?? '<anonymous>'
FirefoxFunctionName(l) ==
    IF FirstIn(l, {"@"}) <= 1 THEN Anonymous ELSE SubSeq(l, 1, FirstIn(l, {"@"}) - 1)

\* l.replace(functionNameRegex, '')
LocationBase(l) ==
    IF FirstIn(l, {"@"}) = 0 THEN l ELSE SubSeq(l, FirstIn(l, {"@"}) + 1, Len(l))

\* replace(/[()]/g, '')
WithoutParens(l) == SelectSeq(l, LAMBDA x : x \notin {"(", ")"})

\* (?::(\d+))?(?::(\d+))?$ matches after piece e with k numbers
FirefoxTail(b, e, k) ==
    /\ Len(b) = e + 2 * k
    /\ \A n \in 1..k : b[e + 2 * n - 1] = ":" /\ b[e + 2 * n] \in Digits

\* match(/(.+?)(?::(\d+))?(?::(\d+))?$/): the shortest file, and as many
\* numbers as follow it
FirefoxLocationParts(b) ==
    LET e == CHOOSE x \in 1..Len(b) :
                /\ \E k \in 0..2 : FirefoxTail(b, x, k)
                /\ \A y \in 1..(x - 1) : \A k \in 0..2 : ~FirefoxTail(b, y, k)
        k == CHOOSE x \in 0..2 : FirefoxTail(b, e, x)
    IN [file |-> SubSeq(b, 1, e), count |-> k,
        n2 |-> IF k >= 1 THEN b[e + 2] ELSE "5",
        n3 |-> IF k >= 2 THEN b[e + 4] ELSE "5"]

\* The frame of one line in the Firefox/Safari branch; group 2 goes to colno
\* and group 3 to lineno
FirefoxFrame(l) ==
    IF FirstIn(l, {"@"}) = 0 /\ FirstIn(l, {":"}) = 0
    THEN Frame(l, FALSE, <<>>, FALSE, 0, FALSE, 0)
    ELSE IF FirstIn(LocationBase(l), {":"}) = 0
    THEN Frame(FirefoxFunctionName(l), TRUE, LocationBase(l), FALSE, 0, FALSE, 0)
    ELSE LET parts == FirefoxLocationParts(WithoutParens(LocationBase(l)))
         IN Frame(FirefoxFunctionName(l), TRUE, parts.file,
                  parts.count >= 2, IF parts.count >= 2 THEN NumberOf(parts.n3) ELSE 0,
                  parts.count >= 1, IF parts.count >= 1 THEN NumberOf(parts.n2) ELSE 0)

\* parseStackTrace(stack), stack given as its lines; an empty string has no line
parseStackTrace(stack) ==
    IF stack = <<>> THEN [defined |-> FALSE, frames |-> <<>>]
    ELSE IF \E k \in 1..Len(stack) : IsV8Line(stack[k])
    THEN LET lines == SelectSeq(stack, IsV8Line)
         IN [defined |-> TRUE, frames |-> [k \in 1..Len(lines) |-> V8Frame(lines[k])]]
    ELSE LET lines == SelectSeq(stack, LAMBDA l : ~IsNativeLine(l))
         IN [defined |-> TRUE, frames |-> [k \in 1..Len(lines) |-> FirefoxFrame(lines[k])]]

\* The stacks that the engines write.  A V8 stack starts with the name and the
\* message of the error, and has a line "    at fn (file:L:C)" for each call;
\* a Firefox or Safari stack has a line "fn@file:L:C" for each call.
StackFunctions == {"fn", "run"}
StackFiles ==
    { <<"http", ":", "//h/a.js">>,
      <<"https", ":", "//h", ":", "80", "/a.js">>,
      <<"/app/a.js">> }
StackNumbers == {"5", "10"}

V8Header == <<"Error", ":", SP, "boom">>
V8Text(fn, file, L, C) == <<SP, "at", SP, fn, SP, "(">> \o file \o <<":", L, ":", C, ")">>
FirefoxText(fn, file, L, C) == <<fn, "@">> \o file \o <<":", L, ":", C>>

\* The calls of a stack: the function, the file, the line and the column
StackCalls == [fn : StackFunctions, file : StackFiles, L : StackNumbers, C : StackNumbers]

\* The stack of the engine for the calls cs
StackOf(engine, cs) ==
    IF engine = "v8"
    THEN <<V8Header>> \o [k \in 1..Len(cs) |-> V8Text(cs[k].fn, cs[k].file, cs[k].L, cs[k].C)]
    ELSE [k \in 1..Len(cs) |-> FirefoxText(cs[k].fn, cs[k].file, cs[k].L, cs[k].C)]

CallLists == UNION {[1..n -> StackCalls] : n \in 1..MaxLines}

InitStack ==
    /\ \E engine \in {"v8", "firefox"}, cs \in CallLists :
          parsed = [NotParsed EXCEPT !.engine = engine, !.calls = cs, !.stack = StackOf(engine, cs)]
    /\ SpanIdle
    /\ PausableIdle
    /\ BatchingIdle
    /\ BufferedIdle
    /\ ShaperIdle
    /\ TracerIdle

\* parseStackTrace is called with the stack
Parse ==
    /\ ~parsed.done
    /\ LET result == parseStackTrace(parsed.stack)
       IN parsed' = [parsed EXCEPT !.done = TRUE, !.defined = result.defined,
                                   !.frames = result.frames]
    /\ UNCHANGED <<spanVars, pausableVars, batchingVars, bufferedVars, shaperVars, tracerVars>>

NextStack == Parse

SpecStack == InitStack /\ [][NextStack]_vars

----------------------------------------------------------------------------
(* Properties of the span engine *)

\* How many times the finally block of run i has passed its span to the exporter
RunExports(i) == Len(SelectSeq(exported, LAMBDA it : it.via = "run" /\ it.idx = i))

Finished(i) == spans[i].pc \in {"exporting", "done"}

\* C1: a run with an exporter passes its span to the exporter exactly once if
\* the sample flag is true when the body returns or throws, not at all if it
\* is false, never before the body has finished, and never more than once.
C1_ExportedExactlyOnce ==
    \A i \in 1..Len(spans) :
        spans[i].exp =>
            /\ RunExports(i) <= 1
            /\ ~Finished(i) => RunExports(i) = 0
            /\ Finished(i) => RunExports(i) = (IF spans[i].sampleAtFinish THEN 1 ELSE 0)

C1_Witness ==
    \E i, j \in 1..Len(spans) :
        /\ spans[i].exp /\ spans[i].pc = "done" /\ spans[i].thrown = "E1"
        /\ spans[i].sampleAtFinish /\ RunExports(i) = 1
        /\ spans[j].exp /\ spans[j].pc = "done" /\ spans[j].thrown = "none"
        /\ spans[j].sampleAtFinish /\ RunExports(j) = 1

\* C2: a span on which cancel() was called during the body is not passed to
\* the exporter by its run, whether the body returns or throws.
C2_CancelSuppressesExport ==
    \A i \in 1..Len(spans) :
        (spans[i].cancelled /\ Finished(i)) => RunExports(i) = 0

C2_Witness ==
    \E i, j \in 1..Len(spans) :
        /\ spans[i].exp /\ spans[i].parent = AbsentParent /\ spans[i].cancelled
        /\ spans[i].pc = "done" /\ spans[i].thrown = "E1"
        /\ spans[j].exp /\ ~spans[j].afterCancel /\ spans[j].cancelled
        /\ spans[j].pc = "done" /\ spans[j].thrown = "none"
        /\ spans[j].parentSpanId = spans[i].spanId

Errors == Thrown \ {"null"}

\* C3: when the body throws an Error E, the run rejects with E itself, the
\* status is {code: 2, message: "ERROR"} and exactly one "error" event has been
\* appended to the events the body left, whatever the exporter does.
C3_RejectsWithBodyError ==
    \A i \in 1..Len(spans) :
        (spans[i].thrown \in Errors /\ spans[i].pc = "done") =>
            /\ spans[i].result = Threw(spans[i].thrown)
            /\ spans[i].status = StatusERROR
            /\ spans[i].events =
                   Append(SubSeq(spans[i].events, 1, spans[i].evAtFinish),
                          Event("error", TRUE, errorAttributes(spans[i].thrown)))

\* The identifiers known before the k-th direct call of makeSpan: those of its
\* parent reference and of the spans made before
KnownBefore(k) ==
    LET parentObj == makeParentObj(made[k].parent)
    IN {parentObj.traceId, parentObj.spanId}
       \cup {made[j].span.traceId : j \in 1..(k - 1)}
       \cup {made[j].span.spanId : j \in 1..(k - 1)}

Fresh(x, k) == x \in GeneratedIds /\ x \notin KnownBefore(k)

\* C4: makeSpan(P) takes P's traceId when P is present and its traceId is not
\* empty and a fresh traceId otherwise (also for a string whose trace-id field
\* is empty); its spanId is fresh and differs from P's, and its parentSpanId
\* is P's spanId.
C4_MakeSpanIds ==
    \A k \in 1..Len(made) :
        DOMAIN made[k].details = {} =>
            LET parentObj == makeParentObj(made[k].parent)
                given == parentObj.def /\ parentObj.traceId \notin {UNDEF, EMPTY}
                span == made[k].span
            IN /\ given => span.traceId = parentObj.traceId
               /\ ~given => Fresh(span.traceId, k)
               /\ Fresh(span.spanId, k)
               /\ span.spanId # span.traceId
               /\ span.parentSpanId = parentObj.spanId

RECURSIVE Ancestors(_)
Ancestors(i) ==
    IF spans[i].creator = 0 THEN {} ELSE {spans[i].creator} \cup Ancestors(spans[i].creator)

RECURSIVE RootOf(_)
RootOf(i) == IF spans[i].creator = 0 THEN i ELSE RootOf(spans[i].creator)

\* C5: at any depth of nested runs a descendant span has the traceId of the
\* root span of the run, the spanId of the span whose run created it as
\* parentSpanId, and a spanId that no ancestor has.
C5_NestedLineage ==
    \A i \in 1..Len(spans) :
        spans[i].creator # 0 =>
            /\ spans[i].traceId = spans[RootOf(i)].traceId
            /\ spans[i].parentSpanId = spans[spans[i].creator].spanId
            /\ \A a \in Ancestors(i) : spans[i].spanId # spans[a].spanId

C5_Witness ==
    \E i \in 1..Len(spans) :
        /\ spans[i].creator # 0
        /\ spans[spans[i].creator].creator # 0
        /\ Cardinality(Ancestors(i)) = 2
        /\ spans[i].pc = "done"

\* C6: once cancel() has been called on a running span, the exporter receives
\* neither that span nor a child made from it afterwards by run or by span.
C6_NothingExportedAfterCancel ==
    \A k \in 1..Len(exported) : ~exported[k].afterCancel

----------------------------------------------------------------------------
(* Properties of the pausable stage *)

\* The last n elements of q
LastN(q, n) == SubSeq(q, Len(q) - n + 1, Len(q))

\* The newest items of q that a queue of the configured size can hold
Newest(q) == LastN(q, Min(Len(q), PausableLimit(popts)))

\* C7: a call made while paused puts its items at the end of the pending queue
\* (which keeps what fits) and makes no call to the inner exporter; a call made
\* while not paused makes one call to the inner exporter with exactly its
\* items and leaves the queue as it was.  The stage starts paused only when
\* startPaused is true.
C7_PausedQueuesElseForwards ==
    /\ plast.op = "none" => paused = (popts.startPaused = "true")
    /\ plast.op = "submit" =>
         IF plast.paused
         THEN /\ Len(pcalls) = plast.ncalls
              /\ ppending = Newest(plast.pending \o plast.events)
         ELSE /\ Len(pcalls) = plast.ncalls + 1
              /\ pcalls[Len(pcalls)] = plast.events
              /\ ppending = plast.pending

C7_Witness ==
    /\ plast.op = "submit" /\ plast.paused
    /\ Len(plast.events) = 2 /\ Len(plast.pending) = 1
    /\ ppending = plast.pending \o plast.events
    /\ plast.ncalls > 0

\* C8: a toggle returns the new paused state.  One that leaves the stage
\* unpaused and finds items pending makes exactly one call to the inner
\* exporter and empties the queue, and the call holds everything submitted
\* while paused, in order, when that never exceeded maxQueueSize.  A toggle
\* that leaves the stage paused or finds the queue empty makes no call.
C8_ToggleFlushesOnce ==
    plast.op = "toggle" =>
        /\ plast.ret = paused
        /\ IF ~paused /\ Len(plast.pending) > 0
           THEN /\ Len(pcalls) = plast.ncalls + 1
                /\ ppending = <<>>
                /\ pcalls[Len(pcalls)] = plast.pending
                /\ Len(plast.buf) <= PausableLimit(popts)
                      => pcalls[Len(pcalls)] = plast.buf
           ELSE /\ Len(pcalls) = plast.ncalls
                /\ ppending = plast.pending

C8_Witness ==
    /\ plast.op = "toggle" /\ plast.on = "false" /\ plast.paused /\ ~paused
    /\ Len(plast.buf) = 2 /\ popts.hasMaxQueueSize /\ popts.maxQueueSize = 2
    /\ pcalls = <<plast.buf>>
    /\ ppending = <<>>

\* C9: the pending queue never holds more than maxQueueSize items (100000 when
\* none is configured), and it holds the newest maxQueueSize items submitted
\* since the stage was paused, in order: only the oldest are dropped.
C9_QueueBounded ==
    /\ Len(ppending) <= PausableLimit(popts)
    /\ ppending = Newest(pbuf)

C9_Witness ==
    /\ popts.hasMaxQueueSize /\ popts.maxQueueSize = 2
    /\ Len(pbuf) = 4 /\ plast.op = "submit" /\ Len(plast.pending) = 2
    /\ ppending = SubSeq(pbuf, 3, 4)

----------------------------------------------------------------------------
(* Properties of the batching stage *)

RECURSIVE Flatten(_)
Flatten(calls) == IF calls = <<>> THEN <<>> ELSE Head(calls) \o Flatten(Tail(calls))

CeilDiv(n, d) == (n + d - 1) \div d

\* The stage runs with maxBatchSize = 35, given or by default, and every item
\* was submitted before processBatch first ran and fits the queue
SubmittedUpFront ==
    /\ ~blate
    /\ bopts.hasMaxBatchSize => bopts.maxBatchSize = 35
    /\ bnext - 1 <= BatchingLimit(bopts)

\* No timer is armed and nothing is pending
Drained == ~btimer.armed /\ bpending = <<>>

\* C10: N items submitted with maxBatchSize = 35 and nothing submitted later
\* give, once the timers have fired, exactly ceil(N/35) calls of at most 35
\* items that together are the N items in order; the last call holds N mod 35
\* items, or 35 when N is a positive multiple of 35; N = 0 gives no call.
C10_BatchesOf35 ==
    (SubmittedUpFront /\ Drained) =>
        LET N == bnext - 1
        IN /\ Len(bcalls) = CeilDiv(N, 35)
           /\ \A c \in 1..Len(bcalls) : Len(bcalls[c]) >= 1 /\ Len(bcalls[c]) <= 35
           /\ Flatten(bcalls) = Items(1, N)
           /\ N > 0 => Len(bcalls[Len(bcalls)]) = (IF N % 35 = 0 THEN 35 ELSE N % 35)

C10_Witness ==
    /\ SubmittedUpFront /\ Drained
    /\ bnext - 1 = 71
    /\ Len(bcalls) = 3
    /\ Len(bcalls[3]) = 1

\* The newest items of q that a queue of the configured size, or of the
\* default size 100000, can hold
NewestOfBatch(q) == LastN(q, Min(Len(q), BatchingLimit(bopts)))

\* C11: a call of the stage's exporter that makes the pending queue longer
\* than maxQueueSize (100000 when none is configured) drops the oldest items
\* only, as many as the queue is too long by, so the queue is then exactly
\* the newest maxQueueSize items; a call that fits drops nothing.
C11_TrimKeepsNewest ==
    blast.op = "submit" => bpending = NewestOfBatch(blast.pending \o blast.events)

\* C12: after a teardown signal the pending queue is empty and what was
\* pending went to the inner exporter, whatever the length of the queue.
C12_TeardownForwardsAll ==
    blast.op = "teardown" =>
        /\ bpending = <<>>
        /\ \E k \in 0..Len(bcalls) :
              Flatten(SubSeq(bcalls, k + 1, Len(bcalls))) = blast.pending

----------------------------------------------------------------------------
(* Properties of the buffered stage *)

\* The arguments of the calls, call by call
ItemsOf(calls) == [c \in DOMAIN calls |-> calls[c].items]

\* maxBatchSize as the stage was given it, 35 when it was given none
GivenBatchSize == IF fopts.hasMaxBatchSize THEN fopts.maxBatchSize ELSE 35

\* The inner calls made from the start of the call p of the stage to its end
MadeDuring(p) == SubSeq(fcalls, fprocs[p].before + 1, fprocs[p].after)

\* C13: a call of obj.exporter that leaves at most maxBatchSize items pending
\* resolves with no call of the inner exporter.  One that leaves more, run
\* with maxBatchSize >= 1, an inner exporter that resolves and no other call
\* of obj.exporter while it waits, has resolved only after the whole queue
\* (what was pending, then its own items) went to the inner exporter in
\* consecutive chunks of 1..maxBatchSize items in order, and the queue was
\* empty when it resolved.
C13_DrainsInChunks ==
    \A p \in DOMAIN fprocs :
        LET pr == fprocs[p]
            all == pr.pre \o pr.events
        IN pr.op = "exporter" =>
            /\ Len(all) <= GivenBatchSize =>
                  /\ pr.pc = "done"
                  /\ \A c \in DOMAIN fcalls : fcalls[c].by # p
                  /\ pr.after = pr.before
            /\ (Len(all) > GivenBatchSize /\ GivenBatchSize >= 1
                    /\ pr.pc = "done" /\ pr.alone) =>
                  /\ pr.left = 0
                  /\ Flatten(ItemsOf(MadeDuring(p))) = all
                  /\ \A c \in DOMAIN MadeDuring(p) :
                        /\ Len(MadeDuring(p)[c].items) >= 1
                        /\ Len(MadeDuring(p)[c].items) <= GivenBatchSize

C13_Witness ==
    \E p \in DOMAIN fprocs :
        /\ fprocs[p].op = "exporter" /\ fprocs[p].pc = "done" /\ fprocs[p].alone
        /\ fopts.hasMaxBatchSize /\ fopts.maxBatchSize = 2
        /\ Len(fprocs[p].pre) = 2 /\ Len(fprocs[p].events) = 1
        /\ fprocs[p].after = fprocs[p].before + 2
        /\ fpending = <<>>
        /\ \E q \in DOMAIN fprocs :
              /\ fprocs[q].op = "exporter" /\ fprocs[q].pc = "done"
              /\ Len(fprocs[q].pre \o fprocs[q].events) = 2
              /\ fprocs[q].after = fprocs[q].before

\* The inner calls whose promise has not settled
InFlight == {c \in DOMAIN fcalls : fcalls[c].state = "inflight"}

\* C14: at most one call of the inner exporter is in flight at any time,
\* whatever calls of obj.exporter and obj.send arrive while a drain waits
\* (stated for maxBatchSize >= 1, where every drain ends).
C14_OneCallInFlight == GivenBatchSize >= 1 => Cardinality(InFlight) <= 1

----------------------------------------------------------------------------
(* Properties of the stages in the pipeline *)

RECURSIVE IsSubseq(_, _)
\* The sequence a is what is left of b when some of its elements are removed
IsSubseq(a, b) ==
    IF a = <<>> THEN TRUE
    ELSE IF b = <<>> THEN FALSE
    ELSE IF Head(a) = Head(b) THEN IsSubseq(Tail(a), Tail(b))
    ELSE IsSubseq(a, Tail(b))

Range(q) == {q[k] : k \in DOMAIN q}

\* Of the items submitted, in order, the stage has passed on a subsequence,
\* and the others are exactly the dropped ones and the pending ones
InOrderAndAccounted(submitted, passed, dropped, pending) ==
    /\ IsSubseq(passed, submitted)
    /\ Range(submitted) \ Range(passed) = Range(dropped) \cup Range(pending)

\* What each stage was given: the pausable stage the items 1, 2, ..., the
\* batching stage what the pausable stage passed on, the buffered stage what
\* the batching stage passed on
SubmittedToPausable == Items(1, pnext - 1)
SubmittedToBatching == Flatten(pcalls)
SubmittedToBuffered == Flatten(bcalls)

NoDuplicates(q) == \A i, j \in DOMAIN q : q[i] = q[j] => i = j

\* C16: in the pipeline no item is passed twice to the inner exporter of the
\* pausable, of the batching or of the buffered stage.
C16_AtMostOnce ==
    /\ NoDuplicates(Flatten(pcalls))
    /\ NoDuplicates(Flatten(bcalls))
    /\ NoDuplicates(Flatten(ItemsOf(fcalls)))

C16_Witness ==
    /\ Len(pcalls) >= 2 /\ Len(bcalls) >= 2 /\ Len(fcalls) >= 2
    /\ Cardinality(InFlight) >= 2
    /\ \E p \in DOMAIN fprocs : fprocs[p].op = "send"

----------------------------------------------------------------------------
(* Properties of the payload shaper *)

\* The name of a scope as the item has it
ScopeName(scope) == IF scope.bare THEN scope.str ELSE scope.name

\* The places of the batch whose item satisfies Test
Places(Test(_)) == {k \in DOMAIN batch : Test(batch[k])}

HasSpan(item) == item.span.has
HasLogOnly(item) == item.log.has /\ ~item.span.has
HasGaugeOnly(item) ==
    item.metric.has /\ item.metric.gauge /\ ~item.span.has /\ ~item.log.has

RECURSIVE SumOf(_)
\* The sum of the numbers of a sequence
SumOf(q) == IF q = <<>> THEN 0 ELSE Head(q) + SumOf(Tail(q))

SpansShaped == SumOf([g \in DOMAIN shaped.traces |-> Len(shaped.traces[g].spans)])

\* C17: per item only the first rule that matches is applied, in the order
\* span, log, gauge metric: the spans shaped are as many as the items with a
\* span, the exceptions, events and logs together as many as the items with
\* a log and no span, and every measurement and every value in it comes from
\* an item with a gauge metric and neither span nor log.
C17_FirstRuleOnly ==
    shaped.done =>
        /\ SpansShaped = Cardinality(Places(HasSpan))
        /\ Len(shaped.exceptions) + Len(shaped.events) + Len(shaped.logs)
              = Cardinality(Places(HasLogOnly))
        /\ \A g \in DOMAIN shaped.measurements :
              /\ \E k \in Places(HasGaugeOnly) :
                    ScopeName(batch[k].scope) = shaped.measurements[g].type
              /\ \A n \in DOMAIN shaped.measurements[g].values :
                    \E k \in Places(HasGaugeOnly) :
                        /\ ScopeName(batch[k].scope) = shaped.measurements[g].type
                        /\ batch[k].metric.name = n

\* The span numbers of the items of the scope name, in batch order
SpansOfScope(name) ==
    LET with == SelectSeq(batch, LAMBDA item : HasSpan(item) /\ ScopeName(item.scope) = name)
    IN [k \in DOMAIN with |-> with[k].span.id]

Band(severity) ==
    IF severity \in 0..4 THEN "trace"
    ELSE IF severity \in 5..8 THEN "debug"
    ELSE IF severity \in 9..12 THEN "info"
    ELSE IF severity \in 13..16 THEN "warning"
    ELSE IF severity \in 17..20 THEN "error"
    ELSE IF severity \in 21..24 THEN "fatal"
    ELSE "none"

\* The plain log messages of the batch, in order
PlainLogs ==
    SelectSeq(batch, LAMBDA item :
        HasLogOnly(item) /\ Context(item.log, "kind") \notin {"exception", "event"})

\* C19: the mapping from severity numbers to levels has a value for every
\* number in 0..24 (0-4 trace, 5-8 debug, 9-12 info, 13-16 warning, 17-20
\* error, 21-24 fatal), and every plain log message is shaped with the level
\* of its severityNumber, or of 0 when it has none.
C19_SeverityBands ==
    /\ \A severity \in 0..24 : getFaroLogLevel(severity) = Band(severity)
    /\ shaped.done =>
          /\ Len(shaped.logs) = Len(PlainLogs)
          /\ \A k \in DOMAIN PlainLogs :
                shaped.logs[k].level =
                    Band(IF PlainLogs[k].log.hasSeverity
                         THEN PlainLogs[k].log.severityNumber ELSE 0)

C19_Witness ==
    /\ shaped.done
    /\ Len(batch) = 1
    /\ batch[1].log.hasSeverity /\ batch[1].log.severityNumber = 21
    /\ shaped.logs = <<[message |-> "hi", level |-> "fatal"]>>

\* The items with a gauge metric of the scope name and the metric name that
\* have a value, in batch order
GaugesOf(scope, name) ==
    SelectSeq(batch, LAMBDA item :
        /\ HasGaugeOnly(item) /\ item.metric.hasValue
        /\ ScopeName(item.scope) = scope /\ item.metric.name = name)

\* asDouble when the value has it, else asInt
Preferred(metric) == IF metric.hasDouble THEN metric.asDouble ELSE metric.asInt

\* No item of the batch has a log together with a metric (the case of C17)
NoLogWithMetric == \A k \in DOMAIN batch : ~(batch[k].log.has /\ batch[k].metric.has)

----------------------------------------------------------------------------
(* Properties of faroExporter *)

Delivered == faro.pc # "idle" /\ faro.hasBody

\* C21: the serialized payload always has meta; it has each of events,
\* exceptions, measurements, logs and traces exactly when the batch gave at
\* least one record of that category; traces, when there, holds exactly one
\* resourceSpans entry, with the groups of spans and a resource whose
\* service.name attribute is meta.app.name.
C21_PayloadKeys ==
    Delivered =>
        /\ "meta" \in DOMAIN faro.body
        /\ faro.body["meta"] = faro.meta
        /\ \A k \in {"events", "exceptions", "measurements", "logs", "traces"} :
              /\ k \in DOMAIN faro.body <=> shaped[k] # <<>>
              /\ k \in DOMAIN faro.body /\ k # "traces" => faro.body[k] = shaped[k]
        /\ "traces" \in DOMAIN faro.body =>
              LET rs == faro.body["traces"].resourceSpans
              IN /\ Len(rs) = 1
                 /\ rs[1].scopeSpans = shaped.traces
                 /\ Len(rs[1].resource.attributes) = 1
                 /\ rs[1].resource.attributes[1].key = "service.name"
                 /\ faro.meta.hasName =>
                       rs[1].resource.attributes[1].value = [stringValue |-> faro.meta.name]

C21_Witness ==
    /\ Delivered
    /\ DOMAIN faro.body = {"meta", "traces", "logs"}
    /\ Len(shaped.traces) = 2
    /\ faro.meta.hasName

\* C22: an export call tries the beacon first; it POSTs once exactly when
\* there is no beacon or the beacon returned false, never after a beacon
\* that returned true, and never twice; a POST that rejects is logged only:
\* the promise of the call does not reject for it, and resolves.
C22_BeaconThenPost ==
    Delivered =>
        /\ faro.beacons = (IF faro.nav \in {"accepts", "refuses"} THEN 1 ELSE 0)
        /\ faro.posts = (IF faro.nav = "accepts" THEN 0 ELSE 1)
        /\ faro.promise # "rejected"
        /\ faro.pc = "done" => faro.promise = "resolved"
        /\ faro.logged = (IF faro.postFailed THEN 1 ELSE 0)

C22_Witness ==
    /\ Delivered
    /\ faro.pc = "done"
    /\ faro.nav = "refuses"
    /\ faro.beacons = 1
    /\ faro.posts = 1
    /\ faro.postFailed
    /\ faro.promise = "resolved"

Malformed(item) ==
    \/ item.log.has /\ ~item.log.hasTime
    \/ item.metric.has /\ item.metric.gauge /\ ~item.metric.hasValue

\* C23: a batch holding a log item without timeUnixNano, or a gauge whose
\* first data point has no value, does not make the export call reject: a
\* payload is made of the batch and handed to a transport.
C23_MalformedTolerated ==
    /\ faro.pc # "idle"
    /\ faro.meta.hasApp
    /\ \E k \in DOMAIN batch : Malformed(batch[k])
    => faro.promise # "rejected" /\ faro.hasBody

----------------------------------------------------------------------------
(* Properties of traceparent and makeSpan *)

\* C24: traceparent() of a running span is "00-<traceId>-<spanId>-<flags>",
\* flags being "01" when the sample flag of the span is true at the call and
\* "00" when it is false.
C24_TraceparentFormat ==
    \A k \in 1..Len(made) :
        LET S == spans[made[k].of]
        IN made[k].str =
              <<"00", DASH>> \o S.traceId \o <<DASH>> \o S.spanId \o <<DASH>>
              \o (IF made[k].sample THEN <<"01">> ELSE <<"00">>)

\* C25: parsing the string that S.traceparent() returned gives S's traceId,
\* S's spanId and the sample flag S had at the call, and the span made with
\* the string as its parent has S's traceId, S's spanId as parentSpanId and
\* that sample flag.
C25_TraceparentRoundTrip ==
    \A k \in 1..Len(made) :
        LET S == spans[made[k].of]
            parentObj == makeParentObj(StringParent(made[k].str))
        IN /\ parentObj.traceId = S.traceId
           /\ parentObj.spanId = S.spanId
           /\ parentObj.sample = made[k].sample
           /\ made[k].span.traceId = S.traceId
           /\ made[k].span.parentSpanId = S.spanId
           /\ made[k].span.sample = made[k].sample

C25_Witness ==
    /\ Len(made) = 2
    /\ made[1].sample
    /\ ~made[2].sample
    /\ spans[made[2].of].cancelled
    /\ made[1].of = 2
    /\ spans[2].traceId = ExternalTraceId

\* The sample flag that a parent reference carries: that of the object, or
\* bit 0 of the fourth field of the string
SampleOfParent(P) ==
    IF P.type = "object" THEN P.sample = "true"
    ELSE LET parts == Split(P.str)
         IN Len(parts) >= 4 /\ parts[4] \in {<<"01">>, <<"1">>}

\* C30: makeSpan gives sample = true without a parent and the sample flag of
\* the parent otherwise, startTimeUnixNano = endTimeUnixNano, and every
\* field of details replaces the derived value.
C30_MakeSpanDefaults ==
    \A k \in 1..Len(made) :
        LET P == made[k].parent
            details == made[k].details
            span == made[k].span
        IN /\ "sample" \notin DOMAIN details =>
                 span.sample = (IF P.type = "absent" THEN TRUE ELSE SampleOfParent(P))
           /\ DOMAIN details \cap {"startTimeUnixNano", "endTimeUnixNano"} = {} =>
                 /\ span.startTimeUnixNano = span.endTimeUnixNano
                 /\ span.startTimeUnixNano = made[k].at
           /\ \A f \in DOMAIN details : span[f] = details[f]

C30_Witness ==
    /\ Len(made) = 2
    /\ made[1].parent = StringParent(<<"00", DASH, "x1", DASH, "x2", DASH, "00">>)
    /\ made[1].details = NoDetails
    /\ ~made[1].span.sample
    /\ made[2].parent.type = "absent"
    /\ made[2].details = [sample |-> TRUE, endTimeUnixNano |-> now + 2]
    /\ made[2].span.endTimeUnixNano # made[2].span.startTimeUnixNano

----------------------------------------------------------------------------
(* Properties of the tracers and of the unhandled-errors instrumentation *)

\* The value that log gives a field of the record: the caller's, if the
\* caller's record has the field
Overlaid(record, field, derived) ==
    IF field \in DOMAIN record THEN record[field] ELSE derived

\* C26: every operation of tracer(exportFn, P), P present, is bound to P: the
\* record that its log or error emits has P's traceId and spanId, with the
\* fields of the caller's record laid over it, and the span that its span or
\* run makes has P's traceId and P's spanId as parentSpanId.
C26_TracerBoundToParent ==
    tr.kind = "tracer" /\ tr.parent.type # "absent" =>
        LET parentObj == makeParentObj(tr.parent)
        IN /\ \A k \in 1..Len(tcalls) :
                 LET c == tcalls[k]
                     record == c.input.record
                 IN c.by = "tracer" =>
                      /\ c.op \in {"log", "error"} =>
                            /\ c.sent
                            /\ c.item.log.traceId = Overlaid(record, "traceId", parentObj.traceId)
                            /\ c.item.log.spanId = Overlaid(record, "spanId", parentObj.spanId)
                      /\ c.op = "log" =>
                            /\ c.item.log.body = Overlaid(record, "body", c.input.message)
                            /\ c.item.log.attributes = Overlaid(record, "attributes", <<>>)
                      /\ c.op = "span" =>
                            /\ c.span.traceId = parentObj.traceId
                            /\ c.span.parentSpanId = parentObj.spanId
           /\ \A i \in 1..Len(spans) :
                 spans[i].creator = 0 =>
                    /\ spans[i].traceId = parentObj.traceId
                    /\ spans[i].parentSpanId = parentObj.spanId

\* C27: the no-op tracer never calls an exporter; its error, log,
\* measurement and span complete; its run runs the body and ends as the body
\* ended; and the log, measurement, error and span helpers of the span
\* given to that body complete without raising.
C27_DummyTracerInert ==
    tr.kind = "dummy" =>
        /\ exported = <<>>
        /\ \A k \in 1..Len(tcalls) : ~tcalls[k].sent /\ tcalls[k].outcome = "resolved"
        /\ \A i \in 1..Len(spans) :
              spans[i].pc = "done" =>
                 spans[i].result = (IF spans[i].thrown = "none" THEN Returned
                                    ELSE Threw(spans[i].thrown))

\* C28: error() emits one log item, of severityNumber 20, with the
\* attributes kind = "exception", message, type and stacktrace of the error,
\* and the shaper makes of such an item one exception record, with the type
\* of the type attribute, and neither a log nor an event.
C28_ErrorIsException ==
    \A k \in 1..Len(tcalls) :
        LET c == tcalls[k]
            e == c.input.e
            one == collect(<<c.item>>)
        IN c.op = "error" /\ c.sent =>
             /\ c.item.log.has /\ ~c.item.span.has /\ ~c.item.metric.has
             /\ c.item.log.hasSeverity /\ c.item.log.severityNumber = 20
             /\ c.item.log.attributes =
                   << <<"kind", "exception">>, <<"message", ErrorText(e)>>,
                      <<"type", ErrorName(e)>>, <<"stacktrace", ErrorStack(e)>> >>
             /\ ~one.raised
             /\ one.exceptions = << [type |-> ErrorName(e), value |-> ErrorStack(e)] >>
             /\ one.logs = <<>> /\ one.events = <<>>
             /\ one.measurements = <<>> /\ one.traces = <<>>

C28_Witness ==
    /\ Len(tcalls) = 2
    /\ tcalls[1].op = "error" /\ tcalls[1].sent /\ tcalls[1].by = "tracer"
    /\ tcalls[1].input.e = "E2"
    /\ tcalls[2].op = "error" /\ tcalls[2].sent /\ tcalls[2].by = "span"
    /\ tcalls[2].input.e = "E1"

\* C29: an unhandled error for which the ignore function returns true is
\* not sent to the exporter, one for which it returns false is sent, and
\* every error is sent when there is no ignore function.
C29_IgnoreFilters ==
    \A k \in 1..Len(tcalls) :
        LET c == tcalls[k]
        IN /\ uopts.hasIgnore /\ c.input.e \in uopts.ignored => ~c.sent
           /\ uopts.hasIgnore /\ c.input.e \notin uopts.ignored => c.sent
           /\ ~uopts.hasIgnore => c.sent

\* C32: a call of the batching stage's exporter sets a timeout of interval
\* (1000 when the option is absent) when no timeout is referenced and leaves
\* the referenced one alone otherwise; a firing that leaves items in the
\* queue sets a timeout of batchingInterval (else interval, else 1000); a
\* firing that empties the queue leaves no timeout referenced.
C32_TimerProtocol ==
    /\ blast.op = "submit" =>
          IF blast.timer.armed THEN btimer = blast.timer
          ELSE /\ btimer.armed
               /\ btimer.delay = (IF bopts.hasInterval THEN bopts.interval ELSE 1000)
    /\ blast.op = "timer" =>
          IF bpending # <<>>
          THEN /\ btimer.armed
               /\ btimer.delay = (IF bopts.hasBatchingInterval THEN bopts.batchingInterval
                                  ELSE IF bopts.hasInterval THEN bopts.interval
                                  ELSE 1000)
          ELSE ~btimer.armed

\* A firing left items queued under options whose batchingInterval differs
\* from the interval
C32_Witness ==
    /\ blast.op = "timer"
    /\ bpending # <<>>
    /\ bopts.hasBatchingInterval /\ bopts.hasInterval
    /\ bopts.batchingInterval # bopts.interval
    /\ btimer.delay = bopts.batchingInterval

\* A call found a timeout referenced and left it as it was
C32_WitnessArmed ==
    /\ blast.op = "submit"
    /\ blast.timer.armed
    /\ blast.timer.delay = 100
    /\ btimer = blast.timer

\* C33: every call of the inner exporter has at least one item and at most
\* maxBatchSize (35 when the option is absent) items; a drain (by the timer
\* or by a teardown) makes one inner call, with the oldest items of the queue
\* it found, when that queue is not empty, and no inner call otherwise; a
\* call of the stage's exporter makes no inner call.
C33_BoundedOldestPrefix ==
    LET size == IF bopts.hasMaxBatchSize THEN bopts.maxBatchSize ELSE 35
        found == blast.pending
        n == IF Len(found) < size THEN Len(found) ELSE size
    IN /\ \A k \in 1..Len(bcalls) : Len(bcalls[k]) >= 1 /\ Len(bcalls[k]) <= size
       /\ blast.op \in {"timer", "teardown"} =>
             IF found = <<>> THEN Len(bcalls) = blast.calls
             ELSE /\ Len(bcalls) = blast.calls + 1
                  /\ bcalls[Len(bcalls)] = SubSeq(found, 1, n)
                  /\ bpending = SubSeq(found, n + 1, Len(found))
       /\ blast.op = "submit" => Len(bcalls) = blast.calls

\* A drain took maxBatchSize items of a longer queue, after an earlier drain
C33_Witness ==
    /\ blast.op \in {"timer", "teardown"}
    /\ bopts.hasMaxBatchSize
    /\ Len(blast.pending) > bopts.maxBatchSize
    /\ Len(bcalls) >= 2
    /\ Len(bcalls[Len(bcalls)]) = bopts.maxBatchSize
    /\ bpending # <<>>

\* C37: at most one timeout of the batching stage is set at any time, and
\* a timeout is referenced whenever the queue is not empty.
C37_OneTimerWhilePending ==
    /\ btimer.live <= 1
    /\ btimer.armed <=> btimer.live = 1
    /\ bpending # <<>> => btimer.armed

\* Calls of the stage's exporter came while a timeout was set, and a teardown
\* cleared a timeout and set another
C37_Witness ==
    /\ bsubs >= 2
    /\ blast.op = "teardown"
    /\ blast.timer.armed
    /\ bpending # <<>>
    /\ btimer.armed

C36_QueueEmptyUnlessPaused ==
    ~paused => ppending = <<>>

\* A toggle found the stage paused with items in the queue and left it not
\* paused
C36_Witness ==
    /\ plast.op = "toggle"
    /\ plast.paused
    /\ plast.pending # <<>>
    /\ ~paused
    /\ ppending = <<>>

\* C34: the record that newSpan.log or newSpan.error emits has the traceId
\* and the spanId of that running span, except where the caller's record has
\* a traceId or a spanId of its own; the item that newSpan.measurement emits
\* is a metric, with no log, no span, and no traceId or spanId.
C34_HelpersLinkToSpan ==
    \A k \in 1..Len(tcalls) :
        LET c == tcalls[k]
            record == c.input.record
        IN c.by = "span" /\ c.sent =>
             /\ c.op \in {"log", "error"} =>
                   /\ c.item.log.has
                   /\ c.item.log.traceId = Overlaid(record, "traceId", spans[c.input.of].traceId)
                   /\ c.item.log.spanId = Overlaid(record, "spanId", spans[c.input.of].spanId)
             /\ c.op = "measurement" =>
                   /\ c.item.metric.has /\ ~c.item.log.has /\ ~c.item.span.has
                   /\ "traceId" \notin DOMAIN c.item.metric
                   /\ "spanId" \notin DOMAIN c.item.metric

\* The body of a run logged with a record that has no ids of its own, and
\* then recorded an error
C34_Witness ==
    /\ Len(tcalls) = 2
    /\ tcalls[1].by = "span" /\ tcalls[1].op = "log" /\ tcalls[1].sent
    /\ tcalls[1].input.of >= 1
    /\ "traceId" \notin DOMAIN tcalls[1].input.record
    /\ tcalls[1].item.log.traceId = spans[tcalls[1].input.of].traceId
    /\ tcalls[1].item.log.traceId # UNDEF
    /\ tcalls[2].by = "span" /\ tcalls[2].op = "error" /\ tcalls[2].sent
    /\ tcalls[2].item.log.spanId = spans[tcalls[2].input.of].spanId

\* A record with ids of its own went through newSpan.log, and a measurement
\* through newSpan.measurement
C34_WitnessOverride ==
    /\ Len(tcalls) = 2
    /\ tcalls[1].by = "span" /\ tcalls[1].op = "log" /\ tcalls[1].sent
    /\ "traceId" \in DOMAIN tcalls[1].input.record
    /\ tcalls[1].item.log.traceId = <<"r1">>
    /\ tcalls[2].by = "span" /\ tcalls[2].op = "measurement" /\ tcalls[2].sent

\* C39: a span that runSpan hands to the exporter belongs to a run whose
\* body has finished, has the time of that finish as its endTimeUnixNano, and
\* has the events and the status that the span has from then on (the events
\* the body marked among them, and the status ERROR exactly when the body
\* threw); and the span of a nested run that the body awaited is handed to the
\* exporter before the span of the run that awaited it.
C39_ExportAfterBody ==
    /\ \A k \in 1..Len(exported) :
          LET x == exported[k]
              S == spans[x.idx]
          IN x.via = "run" =>
               /\ S.pc \in {"exporting", "done"}
               /\ x.span.endTimeUnixNano = S.finishedAt
               /\ x.span.events = S.events
               /\ Len(x.span.events) >= S.evAtFinish
               /\ x.span.status = S.status
               /\ x.span.status = (IF S.thrown = "none" THEN StatusOK ELSE StatusERROR)
    /\ \A k1, k2 \in 1..Len(exported) :
          /\ exported[k1].via = "run" /\ exported[k2].via = "run"
          /\ spans[exported[k1].idx].creator = exported[k2].idx
          /\ spans[exported[k1].idx].awaited
          => k1 < k2

\* A body marked, awaited a nested run and ended later than it started; both
\* spans were handed to the exporter
C39_Witness ==
    /\ Len(exported) = 2
    /\ exported[1].via = "run" /\ exported[1].idx = 2
    /\ exported[2].via = "run" /\ exported[2].idx = 1
    /\ spans[2].awaited /\ spans[2].creator = 1
    /\ Len(exported[2].span.events) >= 1
    /\ exported[2].span.endTimeUnixNano = now + 1
    /\ exported[2].span.startTimeUnixNano = now

\* C40: a call of mark(name) on a running span adds one event, of that name,
\* after the events the span has, and leaves the earlier events, the
\* startTimeUnixNano, the endTimeUnixNano, the status and the sample of the
\* span, and every other span, as they were.
C40_MarkFrame ==
    [][\A i \in 1..Len(spans), name \in MarkNames :
          Mark(i, name) =>
             /\ Len(spans') = Len(spans)
             /\ \A j \in 1..Len(spans) : j # i => spans'[j] = spans[j]
             /\ Len(spans'[i].events) = Len(spans[i].events) + 1
             /\ spans'[i].events[Len(spans'[i].events)].name = name
             /\ SubSeq(spans'[i].events, 1, Len(spans[i].events)) = spans[i].events
             /\ spans'[i].startTimeUnixNano = spans[i].startTimeUnixNano
             /\ spans'[i].endTimeUnixNano = spans[i].endTimeUnixNano
             /\ spans'[i].status = spans[i].status
             /\ spans'[i].sample = spans[i].sample]_vars

\* The body of a cancelled run marked twice, with different names
C40_Witness ==
    /\ Len(spans) >= 1
    /\ spans[1].pc = "body"
    /\ spans[1].cancelled /\ ~spans[1].sample
    /\ Len(spans[1].events) = 2
    /\ spans[1].events[1].name = "m"
    /\ spans[1].events[2].name = "error"

\* C35: an instrumentation of unhandled errors whose stop function was
\* called sends no error to its exporter afterwards, whatever the order in
\* which the instrumentations were installed and stopped; and when the only
\* instrumentation was stopped, window.onerror is the handler the window had
\* before and no listener of the instrumentation is left.
C35_StoppedStaysSilent ==
    /\ \A k \in 1..Len(uon.insts) : ~uon.insts[k].late
    /\ Len(uon.insts) = 1 /\ uon.insts[1].stopped =>
          uon.onerror = uon.prior /\ uon.rejects = <<>>

\* C31: of a stack whose lines are "at fn (file:L:C)" (V8) or "fn@file:L:C"
\* (Firefox, Safari), parseStackTrace returns one frame for each line, in the
\* order of the lines, with function fn, fileName file, lineno L and colno C.
C31_FramesOfLines ==
    parsed.done =>
        /\ Len(parsed.frames) = Len(parsed.calls)
        /\ \A k \in 1..Len(parsed.calls) :
              LET c == parsed.calls[k]
              IN parsed.frames[k] =
                    Frame(<<c.fn>>, TRUE, c.file, TRUE, NumberOf(c.L), TRUE, NumberOf(c.C))


====
